---- MODULE Spec2Model ----
(***************************************************************************)
(* Task / session handle of the smooth SDK (src/src/smooth/_interface.py): *)
(* the reference-counted connection, the poller task, the correlation      *)
(* table of pending action calls and the accessors that wait on the cached *)
(* snapshot.  Every coroutine is cut at its await points: one action is    *)
(* the code that runs between two suspensions of one asyncio task.         *)
(***************************************************************************)
EXTENDS Integers, Sequences, FiniteSets, TLC

\* ------------------------------------------------------------------ bounds
\* Number of calls made on the handle; call c is made by caller c.
NCallers == 3
\* Number of calls made in the specifications that bound it.
MaxCalls == 2
\* Largest number of non-terminal snapshots a scripted server returns.
MaxK == 2
\* Largest number of reply events in the log where the server may repeat one.
MaxLog == 3

Callers == 1..NCallers
MaxTools == 2
ToolIds == (NCallers + 1)..(NCallers + MaxTools)

\* ------------------------------------------------------------ value domains
None == "None"
NonTerminal == {"running", "waiting"}
Codes == {200, 400, 500}
\* An optional timeout is a sequence: <<>> is None, <<t>> is the number t.
Timeouts == {<<>>, <<0>>, <<1>>}
NoArg == [timeout |-> <<>>, force |-> FALSE]

VARIABLES
  is_alive,        \* self._is_alive: the connection reference count
  task_response,   \* self._task_response: the cached snapshot
  polling_task,    \* self._polling_task: 0 (None) or the poller task it refers to
  poller,          \* state of the poller task launched by each caller's _connect
  event_futures,   \* keys of self._event_futures
  fut,             \* state of the future created by each caller's _send_event
  last_event_t,    \* self._last_event_t
  pc, op, arg, ret,\* each caller's position, operation, argument and outcome
  srv,             \* the task as the server knows it
  srv_inbox,       \* event ids the server received and has not answered
  srv_log,         \* the server's event log: reply events, timestamp = position
  tool_tasks,      \* keys of self._tool_tasks
  tool,            \* the task created for each tool_call event
  srv_replies,     \* tool_call reply events the server has received
  url,             \* the arguments of an encode_url call
  encoded,         \* what the encode_url call returned
  queue,           \* Telemetry._queue
  api_key,         \* Telemetry._api_key
  batches,         \* the batches the telemetry backend was given
  made,            \* number of telemetry events made so far
  flushes          \* number of Telemetry._flush calls made so far

vars == <<is_alive, task_response, polling_task, poller, event_futures, fut,
          last_event_t, pc, op, arg, ret, srv, srv_inbox, srv_log,
          tool_tasks, tool, srv_replies, url, encoded, queue, api_key, batches, made, flushes>>

handleVars == <<is_alive, task_response, polling_task, poller, event_futures, fut, last_event_t>>
srvVars == <<srv, srv_inbox, srv_log>>
toolVars == <<tool_tasks, tool, srv_replies>>
urlVars == <<url, encoded>>
telemetryVars == <<queue, api_key, batches, made, flushes>>
utilVars == <<urlVars, telemetryVars>>

\* ------------------------------------------------------------------ values
NoResponse ==
  [status |-> None, output |-> None, live_url |-> None, recording_url |-> None,
   downloads_url |-> None]

\* The terminal test that knows only "done".
IsTerminalDoneOnly(r) == r.status = "done"

\* `self._task_response and self._task_response.status not in ["running", "waiting"]`
IsTerminal(r) == r.status # None /\ r.status \notin NonTerminal

\* The validation with the bound off by one: `timeout < 0`.
InvalidTimeoutBelowZero(t) == t # <<>> /\ t[1] < 0

\* `timeout is not None and timeout < 1`
InvalidTimeout(t) == t # <<>> /\ t[1] < 1

\* A poller that never hard-stops.
HardStopNever(r) == FALSE

\* The poller's test `task_response.status not in ["running", "waiting"]`.
HardStop(r) == r.status \notin NonTerminal

\* `self._task_response and self._task_response.live_url`
\* `self._task_response and self._task_response.status not in ["waiting", "running"]`.
Terminated(r) == r.status \notin {None, "running", "waiting"}
\* `self._task_response and self._task_response.downloads_url is not None`.
HasDownloadsUrl(r) == r.status # None /\ r.downloads_url # None
\* `self._task_response and self._task_response.recording_url is not None`.
HasRecordingUrl(r) == r.status # None /\ r.recording_url # None
HasLiveUrl(r) == r.status # None /\ r.live_url # None

Ret(tag, r) ==
  [tag |-> tag, status |-> r.status, output |-> r.output, url |-> r.live_url, value |-> <<>>]
NoRet == Ret("none", NoResponse)
Raised(e) == Ret(e, NoResponse)
\* A call that returns the plain value v.
Returned(v) == [Raised("returned") EXCEPT !.value = <<v>>]

\* An asyncio future of _send_event: "none" (not created), "pending",
\* "cancelled", "result" (set_result) or the name of the exception set on it,
\* with the value or message it was given (<<>>: none).
Fut(state, value) == [state |-> state, value |-> value]
Pending == Fut("pending", <<>>)

\* What `await future` gives a caller once the future f is done: its result,
\* or its exception raised.
Outcome(f) == [Raised(f.state) EXCEPT !.value = f.value]

\* --------------------------------------------------------- the handle's code
\* The poller task's states.  "created": scheduled, its body not entered yet;
\* "sleeping": in asyncio.sleep(poll_interval); "fetching": in _get_task;
\* "cancel_created" / "cancel_wait": cancel() was requested in "created" or at
\* one of the two awaits and the CancelledError is not delivered yet.
\* "none": not launched; "done": the task has ended.

\* asyncio.Task.cancel() on a task in state s.
CancelTask(s) ==
  CASE s = "created" -> "cancel_created"
    [] s \in {"sleeping", "fetching"} -> "cancel_wait"
    [] OTHER -> s

\* _disconnect without the clamp at 0.
DisconnectNoClamp(n, ps, cur) ==
  LET m == n - 1
  IN  [is_alive |-> m,
       poller |-> IF m = 0 /\ cur # 0 /\ ps[cur] # "done"
                    THEN [ps EXCEPT ![cur] = CancelTask(ps[cur])]
                    ELSE ps]

\* _disconnect that cancels the poller whatever the count has become.
DisconnectCancelAlways(n, ps, cur) ==
  LET m == IF n < 1 THEN 0 ELSE n - 1
  IN  [is_alive |-> m,
       poller |-> IF cur # 0 /\ ps[cur] # "done"
                    THEN [ps EXCEPT ![cur] = CancelTask(ps[cur])]
                    ELSE ps]

\* _disconnect, on the count n, the poller table ps and the task cur that
\* self._polling_task refers to: the new count and the new poller table.
Disconnect(n, ps, cur) ==
  LET m == IF n < 1 THEN 0 ELSE n - 1
  IN  [is_alive |-> m,
       poller |-> IF m = 0 /\ cur # 0 /\ ps[cur] # "done"
                    THEN [ps EXCEPT ![cur] = CancelTask(ps[cur])]
                    ELSE ps]

\* The poller's finally block on the futures: every future still in the table
\* and not done is cancelled; the table is cleared afterwards.
CleanupFutures(tab, fs) ==
  [c \in Callers |-> IF c \in tab /\ fs[c] = Pending THEN Fut("cancelled", <<>>) ELSE fs[c]]

\* The event handling with the outcomes of codes 400 and 500 exchanged.
FulfilSwapped(e) ==
  CASE e.code = 200 -> Fut("result", e.output)
    [] e.code = 400 -> Fut("RuntimeError", e.output)
    [] e.code = 500 -> Fut("ToolCallError", e.output)
    [] OTHER -> Pending

\* What the reply event e does to the future: set_result(payload output) for
\* code 200, set_exception for 400 and 500, nothing for any other code.
Fulfil(e) ==
  CASE e.code = 200 -> Fut("result", e.output)
    [] e.code = 400 -> Fut("ToolCallError", e.output)
    [] e.code = 500 -> Fut("RuntimeError", e.output)
    [] OTHER -> Pending

\* The event loop that sets the future of every reply event, done or not.
RECURSIVE ProcessEventsOverwrite(_, _, _)
ProcessEventsOverwrite(evs, tab, fs) ==
  IF evs = <<>> THEN [tab |-> tab, fut |-> fs]
  ELSE LET e == Head(evs)
           hit == e.name = "browser_action" /\ fs[e.id].state # "none"
       IN  ProcessEventsOverwrite(Tail(evs),
                                  IF hit THEN tab \ {e.id} ELSE tab,
                                  IF hit THEN [fs EXCEPT ![e.id] = Fulfil(e)] ELSE fs)

\* The event loop that hands each reply to the oldest pending entry of the
\* table, whatever its id.
RECURSIVE ProcessEventsFifo(_, _, _)
ProcessEventsFifo(evs, tab, fs) ==
  IF evs = <<>> THEN [tab |-> tab, fut |-> fs]
  ELSE LET e == Head(evs)
           waiting == {c \in tab : fs[c] = Pending}
           hit == e.name = "browser_action" /\ waiting # {}
           first == CHOOSE c \in waiting : \A d \in waiting : c <= d
       IN  ProcessEventsFifo(Tail(evs),
                             IF hit THEN tab \ {first} ELSE tab,
                             IF hit THEN [fs EXCEPT ![first] = Fulfil(e)] ELSE fs)

\* The poller's loop over task_response.events, in order: a browser_action
\* event whose id has a future in the table that is not done pops it and sets it.
RECURSIVE ProcessEvents(_, _, _)
ProcessEvents(evs, tab, fs) ==
  IF evs = <<>> THEN [tab |-> tab, fut |-> fs]
  ELSE LET e == Head(evs)
           hit == e.name = "browser_action" /\ e.id \in tab /\ fs[e.id] = Pending
       IN  ProcessEvents(Tail(evs),
                         IF hit THEN tab \ {e.id} ELSE tab,
                         IF hit THEN [fs EXCEPT ![e.id] = Fulfil(e)] ELSE fs)

\* A tool is registered with its essential flag and its error message (none
\* is <<>>); a synchronous tool runs its function in a worker thread.
ToolKinds == [essential : BOOLEAN, error_message : {<<>>, <<"">>, <<"msg">>}, sync : BOOLEAN]
Outcomes == {"return", "ToolCallError", "Exception"}
\* The function may also return an exception object instead of raising it.
ReturnedErrors == {"returned ToolCallError", "returned Exception"}
\* The task of a tool call; calls counts the tasks created for the event id,
\* sent the replies the server has received for it.
NoTool == [state |-> "none", kind |-> <<>>, outcome |-> "none", calls |-> 0, sent |-> 0]

\* The events of the log: a browser_action reply carries a code and an output,
\* a tool_call names a tool (<<>>: a name that is not registered).
BrowserEvent(i, code, out) ==
  [name |-> "browser_action", id |-> i, code |-> code, output |-> out, tool |-> <<>>]
ToolEvent(t, k) ==
  [name |-> "tool_call", id |-> t, code |-> 0, output |-> <<>>, tool |-> k]

\* _handle_tool_response for a tool that reports the exception's message even
\* when an error message is configured.
ToolReplyOwnMessage(o, k) ==
  CASE o = "ToolCallError" -> [code |-> 400, output |-> "err"]
    [] o = "Exception" -> [code |-> IF k.essential THEN 500 ELSE 400, output |-> "err"]
    [] OTHER -> [code |-> 200, output |-> "val"]

\* _handle_tool_response: the code and the output of the reply, from the way
\* the tool function ended ("val" is its return value, "err" the message of
\* the exception) and from the tool's configuration.
ToolReply(o, k) ==
  CASE o \in {"ToolCallError", "returned ToolCallError"} -> [code |-> 400, output |-> "err"]
    [] o \in {"Exception", "returned Exception"} ->
         [code |-> IF k.essential THEN 500 ELSE 400,
          output |-> IF k.error_message \notin {<<>>, <<"">>}
                       THEN k.error_message[1] ELSE "err"]
    [] OTHER -> [code |-> 200, output |-> "val"]

\* The handler re-raises after the reply only for an essential tool that
\* ended with an exception other than ToolCallError, raised or returned.
Reraises(o, k) == o \in {"Exception", "returned Exception"} /\ k.essential

\* The response went to _handle_tool_response from the try block of __call__
\* (the function returned it) and not from its except clause.
InTry(o) == o \in {"return"} \cup ReturnedErrors

\* The poller's loop over the events, for tool calls: a tool_call event that
\* names a registered tool gets a new task, stored under the event's id.
Dispatch(evs, tt, tl) ==
  LET calls == {i \in 1..Len(evs) : evs[i].name = "tool_call" /\ evs[i].tool # <<>>}
      ids == {evs[i].id : i \in calls}
      kind(t) == evs[CHOOSE i \in calls : evs[i].id = t].tool[1]
  IN  [tab |-> tt \cup ids,
       tool |-> [t \in ToolIds |->
                   IF t \in ids THEN [state |-> "created", kind |-> kind(t), outcome |-> "none",
                                       calls |-> tl[t].calls + 1, sent |-> tl[t].sent]
                   ELSE tl[t]]]

\* The reaping loop: awaiting a task of the table that is done raises what
\* the task ended with, if it ended with an exception or was cancelled.
ReapRaises(tt, tl) == \E t \in tt : tl[t].state \in {"failed", "cancelled"}

\* finally of the poller: every task of the table that is not done is
\* cancelled (the table is then cleared).
CancelTools(tt, tl) ==
  [t \in ToolIds |->
     IF t \in tt /\ tl[t].state \in {"created", "running", "blocked", "replying"}
       THEN [tl[t] EXCEPT !.state = IF tl[t].state = "created" THEN "cancel_created"
                                    ELSE "cancel_wait"]
       ELSE tl[t]]

\* The server's side of a _get_task call.  A free-running server (plan <<>>)
\* changes state on its own; a scripted one (plan <<k>>) is the call-counting
\* stub of the tests: it answers the first k calls with a non-terminal status
\* and every later call with the finished task.  The count stops at MaxK + 2,
\* which stands for every larger number of calls.
Request(s) ==
  IF s.plan = <<>> THEN s
  ELSE LET n == IF s.call_count > MaxK + 1 THEN s.call_count ELSE s.call_count + 1
       IN  IF n <= s.plan[1]
             THEN [s EXCEPT !.call_count = n]
             ELSE [s EXCEPT !.call_count = n, !.status = s.final.status, !.output = s.final.output]

\* What _get_task(id, {"event_t": t}) returns: the server's snapshot and the
\* events after the watermark t.
Snapshot ==
  [status |-> srv.status, output |-> srv.output, live_url |-> srv.live_url,
   recording_url |-> srv.recording_url,
   downloads_url |-> IF srv.downloads_plain THEN srv.downloads_url ELSE None]
EventsAfter(t) == SubSeq(srv_log, t + 1, Len(srv_log))

\* The events of the response to a fetch with event_t = t: the events stamped
\* after t and, from a server that delivers an old event once more
\* (srv.resend), that event again, with its old timestamp, at the end.
ResponseEvents(t) ==
  EventsAfter(t) \o (IF srv.resend > 0 THEN <<srv_log[srv.resend]>> ELSE <<>>)

\* The watermark that a response with events leaves where it was.
LastTimestampStays(t) == t

\* `task_response.events[-1].timestamp or self._last_event_t`, evaluated when
\* the response has events: the timestamp of an event is its position in the
\* log.
LastTimestamp(t) ==
  IF srv.resend > 0 THEN srv.resend
  ELSE IF EventsAfter(t) # <<>> THEN Len(srv_log) ELSE t

\* ------------------------------------------------------------------- Init
\* What close(force) asks of the transport: an event through _send_task_event,
\* or _delete_task with the task id.
CloseEvent == [call |-> "send_task_event", name |-> "browser_action", payload |-> "close"]
DeleteTask == [call |-> "delete_task", name |-> "", payload |-> ""]

\* The task on the server: its status now, the plan of a scripted server,
\* the terminal status and output the task ends with, and the close requests
\* it has received.
Server(start, plan, final) ==
  [status |-> start, output |-> None, live_url |-> None, plan |-> plan, final |-> final,
   call_count |-> 0, asked |-> {}, recording_url |-> None, downloads_url |-> None,
   downloads_plain |-> FALSE, resend |-> 0]
Finals == {[status |-> "done", output |-> "x"], [status |-> "failed", output |-> "y"]}

\* No encode_url call and an unused telemetry object: the state of the
\* utilities in every specification about the handle.
NoUrl == [query |-> <<>>, interactive |-> TRUE, embed |-> FALSE]
IdleUtils ==
  /\ url = NoUrl
  /\ encoded = <<>>
  /\ queue = <<>>
  /\ api_key = ""
  /\ batches = <<>>
  /\ made = 0
  /\ flushes = 0

\* The handle as __init__ leaves it; no call made yet.
FreshHandle ==
  /\ is_alive = 0
  /\ task_response = NoResponse
  /\ polling_task = 0
  /\ poller = [c \in Callers |-> "none"]
  /\ event_futures = {}
  /\ fut = [c \in Callers |-> Fut("none", <<>>)]
  /\ last_event_t = 0
  /\ pc = [c \in Callers |-> "idle"]
  /\ op = [c \in Callers |-> "none"]
  /\ arg = [c \in Callers |-> NoArg]
  /\ ret = [c \in Callers |-> NoRet]
  /\ srv_inbox = {}
  /\ srv_log = <<>>
  /\ tool_tasks = {}
  /\ tool = [t \in ToolIds |-> NoTool]
  /\ srv_replies = {}

Fresh == FreshHandle /\ IdleUtils

Init == Fresh /\ \E f \in Finals : srv = Server("running", <<>>, f)

\* A scripted server: k non-terminal snapshots, then the finished task.
InitScript ==
  /\ Fresh
  /\ \E st \in NonTerminal, k \in 0..MaxK, f \in Finals : srv = Server(st, <<k>>, f)

\* ------------------------------------------------------------ the callers
\* Calls are made in index order: the callers are interchangeable, so caller c
\* makes the c-th call on the handle.
CanCall(c) == pc[c] = "idle" /\ \A d \in Callers : d < c => pc[d] # "idle"

\* The condition an accessor's wait loop tests on the cached snapshot, and the
\* value it returns then.
Ready(o, r) ==
  CASE o = "result" -> IsTerminal(r)
    [] o = "recording_url" -> HasRecordingUrl(r)
    [] o = "downloads_url" -> FALSE
    [] OTHER -> HasLiveUrl(r)
Value(o, r) ==
  CASE o = "result" -> Ret("snapshot", r)
    [] o = "recording_url" ->
         IF r.recording_url = "" THEN Raised("ApiError404") ELSE Returned(r.recording_url)
    [] OTHER -> Ret("live_url", r)

\* What an accessor raises when its loop ends on the deadline: recording_url
\* and downloads_url raise BadRequestError while the cached status is running
\* or waiting.
DeadlineError(o, r) ==
  IF o \in {"recording_url", "downloads_url"} /\ r.status \in NonTerminal
    THEN Raised("BadRequestError")
    ELSE Raised("TimeoutError")

\* The loop condition `(loop.time() - start_time) < timeout` right after
\* start_time was taken: no time has elapsed, so it fails only for a timeout
\* that is not positive.
DeadlinePassedAtOnce(t) == t # <<>> /\ t[1] < 1

\* The code that follows `await self._connect()` up to the caller's next await,
\* for operation o of caller c with timeout t, on count n, poller table ps,
\* current task cur, snapshot r: an accessor tests its loop condition and then
\* the snapshot, an action call awaits its future, __aenter__ returns.
AfterConnect(c, o, t, n, ps, cur, r) ==
  CASE o \in {"result", "live_url", "recording_url"} ->
         IF DeadlinePassedAtOnce(t)
           THEN [pc |-> "done", ret |-> DeadlineError(o, r)] @@ Disconnect(n, ps, cur)
         ELSE IF Ready(o, r)
           THEN [pc |-> "done", ret |-> Value(o, r)] @@ Disconnect(n, ps, cur)
           ELSE [pc |-> "wait", ret |-> NoRet, is_alive |-> n, poller |-> ps]
    [] o = "downloads_url" ->
         IF DeadlinePassedAtOnce(t)
           THEN [pc |-> "done", ret |-> DeadlineError(o, r)] @@ Disconnect(n, ps, cur)
         ELSE IF Terminated(r)
           THEN [pc |-> "dl_fetch", ret |-> NoRet, is_alive |-> n, poller |-> ps]
           ELSE [pc |-> "wait", ret |-> NoRet, is_alive |-> n, poller |-> ps]
    [] o = "action" ->
         IF fut[c] # Pending
           THEN [pc |-> "done", ret |-> Outcome(fut[c])] @@ Disconnect(n, ps, cur)
           ELSE [pc |-> "await", ret |-> NoRet, is_alive |-> n, poller |-> ps]
    [] OTHER -> [pc |-> "done", ret |-> Raised("entered"), is_alive |-> n, poller |-> ps]

\* _connect up to its first await: the count is incremented; only the caller
\* that finds it at 1 goes on to the initial _get_task.
Connect(c, o, t) ==
  LET n == is_alive + 1
      k == AfterConnect(c, o, t, n, poller, polling_task, task_response)
  IN  IF n # 1
        THEN /\ is_alive' = k.is_alive
             /\ poller' = k.poller
             /\ pc' = [pc EXCEPT ![c] = k.pc]
             /\ ret' = [ret EXCEPT ![c] = k.ret]
             /\ srv' = IF k.pc = "dl_fetch" THEN Request(srv) ELSE srv
        ELSE /\ is_alive' = n
             /\ poller' = poller
             /\ pc' = [pc EXCEPT ![c] = "conn_fetch"]
             /\ ret' = ret
             /\ srv' = Request(srv)

\* result(timeout) up to its first await.
CallResult(c) ==
  /\ CanCall(c)
  /\ \E t \in Timeouts :
       /\ op' = [op EXCEPT ![c] = "result"]
       /\ arg' = [arg EXCEPT ![c] = [timeout |-> t, force |-> FALSE]]
       /\ IF IsTerminal(task_response)
            THEN /\ pc' = [pc EXCEPT ![c] = "done"]
                 /\ ret' = [ret EXCEPT ![c] = Ret("snapshot", task_response)]
                 /\ UNCHANGED <<is_alive, poller, srv>>
            ELSE IF InvalidTimeout(t)
            THEN /\ pc' = [pc EXCEPT ![c] = "done"]
                 /\ ret' = [ret EXCEPT ![c] = Raised("ValueError")]
                 /\ UNCHANGED <<is_alive, poller, srv>>
            ELSE Connect(c, "result", t)
  /\ UNCHANGED <<task_response, polling_task, event_futures, fut, last_event_t, srv_inbox, srv_log>>
  /\ UNCHANGED <<toolVars, utilVars>>

\* live_url(timeout) up to its first await.
CallLiveUrl(c) ==
  /\ CanCall(c)
  /\ \E t \in Timeouts :
       /\ op' = [op EXCEPT ![c] = "live_url"]
       /\ arg' = [arg EXCEPT ![c] = [timeout |-> t, force |-> FALSE]]
       /\ IF HasLiveUrl(task_response)
            THEN /\ pc' = [pc EXCEPT ![c] = "done"]
                 /\ ret' = [ret EXCEPT ![c] = Ret("live_url", task_response)]
                 /\ UNCHANGED <<is_alive, poller, srv>>
            ELSE Connect(c, "live_url", t)
  /\ UNCHANGED <<task_response, polling_task, event_futures, fut, last_event_t, srv_inbox, srv_log>>
  /\ UNCHANGED <<toolVars, utilVars>>

\* recording_url(timeout) up to its first await: a cached snapshot whose
\* recording_url is not None is answered with that value.
CallRecordingUrl(c) ==
  /\ CanCall(c)
  /\ \E t \in Timeouts :
       /\ op' = [op EXCEPT ![c] = "recording_url"]
       /\ arg' = [arg EXCEPT ![c] = [timeout |-> t, force |-> FALSE]]
       /\ IF HasRecordingUrl(task_response)
            THEN /\ pc' = [pc EXCEPT ![c] = "done"]
                 /\ ret' = [ret EXCEPT ![c] = Returned(task_response.recording_url)]
                 /\ UNCHANGED <<is_alive, poller, srv>>
            ELSE Connect(c, "recording_url", t)
  /\ UNCHANGED <<task_response, polling_task, event_futures, fut, last_event_t, srv_inbox, srv_log>>
  /\ UNCHANGED <<toolVars, utilVars>>

\* downloads_url(timeout) up to its first await: a cached snapshot whose
\* downloads_url is not None is answered with that value.
CallDownloadsUrl(c) ==
  /\ CanCall(c)
  /\ \E t \in Timeouts :
       /\ op' = [op EXCEPT ![c] = "downloads_url"]
       /\ arg' = [arg EXCEPT ![c] = [timeout |-> t, force |-> FALSE]]
       /\ IF HasDownloadsUrl(task_response)
            THEN /\ pc' = [pc EXCEPT ![c] = "done"]
                 /\ ret' = [ret EXCEPT ![c] = Returned(task_response.downloads_url)]
                 /\ UNCHANGED <<is_alive, poller, srv>>
            ELSE Connect(c, "downloads_url", t)
  /\ UNCHANGED <<task_response, polling_task, event_futures, fut, last_event_t, srv_inbox, srv_log>>
  /\ UNCHANGED <<toolVars, utilVars>>

\* downloads_url wakes from its sleep before the deadline and finds a cached
\* status that is neither running nor waiting: it fetches the task with the
\* downloads filter.
DlCheck(c) ==
  /\ pc[c] = "wait"
  /\ op[c] = "downloads_url"
  /\ Terminated(task_response)
  /\ pc' = [pc EXCEPT ![c] = "dl_fetch"]
  /\ srv' = Request(srv)
  /\ UNCHANGED <<handleVars, op, arg, ret, srv_inbox, srv_log>>
  /\ UNCHANGED <<toolVars, utilVars>>

\* The filtered fetch returns (its response is not cached): a downloads_url
\* that is not None ends the call, with ApiError 404 for the empty string;
\* otherwise the caller sleeps and tests its deadline again.
DlFetchOk(c) ==
  /\ pc[c] = "dl_fetch"
  /\ IF srv.downloads_url # None
       THEN /\ LET d == Disconnect(is_alive, poller, polling_task)
               IN  /\ is_alive' = d.is_alive
                   /\ poller' = d.poller
            /\ pc' = [pc EXCEPT ![c] = "done"]
            /\ ret' = [ret EXCEPT ![c] = IF srv.downloads_url = "" THEN Raised("ApiError404")
                                          ELSE Returned(srv.downloads_url)]
       ELSE /\ pc' = [pc EXCEPT ![c] = "wait"]
            /\ UNCHANGED <<is_alive, poller, ret>>
  /\ UNCHANGED <<task_response, polling_task, event_futures, fut, last_event_t, op, arg>>
  /\ UNCHANGED srvVars
  /\ UNCHANGED <<toolVars, utilVars>>

\* The filtered fetch raises: the error leaves the call through _connection.
DlFetchFail(c) ==
  /\ pc[c] = "dl_fetch"
  /\ LET d == Disconnect(is_alive, poller, polling_task)
     IN  /\ is_alive' = d.is_alive
         /\ poller' = d.poller
  /\ pc' = [pc EXCEPT ![c] = "done"]
  /\ ret' = [ret EXCEPT ![c] = Raised("ApiError")]
  /\ UNCHANGED <<task_response, polling_task, event_futures, fut, last_event_t, op, arg>>
  /\ UNCHANGED srvVars
  /\ UNCHANGED <<toolVars, utilVars>>

\* _connect: the initial _get_task returns; the snapshot is cached and the
\* caller sleeps for the stagger delay.
ConnFetchOk(c) ==
  /\ pc[c] = "conn_fetch"
  /\ task_response' = Snapshot
  /\ pc' = [pc EXCEPT ![c] = "conn_stagger"]
  /\ UNCHANGED <<is_alive, polling_task, poller, event_futures, fut, last_event_t, op, arg, ret>>
  /\ UNCHANGED srvVars
  /\ UNCHANGED <<toolVars, utilVars>>

\* _connect: the initial _get_task raises; the error leaves _connect, which is
\* awaited outside the try of _connection, so no _disconnect runs.
ConnFetchFail(c) ==
  /\ pc[c] = "conn_fetch"
  /\ pc' = [pc EXCEPT ![c] = "done"]
  /\ ret' = [ret EXCEPT ![c] = Raised("ApiError")]
  /\ UNCHANGED <<handleVars, op, arg>>
  /\ UNCHANGED srvVars
  /\ UNCHANGED <<toolVars, utilVars>>

\* _connect: the stagger sleep ends, the poller task is created and stored,
\* and the caller runs on to its next await.
ConnLaunch(c) ==
  /\ pc[c] = "conn_stagger"
  /\ polling_task' = c
  /\ LET k == AfterConnect(c, op[c], arg[c].timeout, is_alive, [poller EXCEPT ![c] = "created"], c, task_response)
     IN  /\ is_alive' = k.is_alive
         /\ poller' = k.poller
         /\ pc' = [pc EXCEPT ![c] = k.pc]
         /\ ret' = [ret EXCEPT ![c] = k.ret]
         /\ srv' = IF k.pc = "dl_fetch" THEN Request(srv) ELSE srv
  /\ UNCHANGED <<task_response, event_futures, fut, last_event_t, op, arg, srv_inbox, srv_log>>
  /\ UNCHANGED <<toolVars, utilVars>>

\* An accessor wakes from asyncio.sleep(0.2), its deadline has not passed and
\* the snapshot has what it waits for: it returns, and _connection disconnects.
\* (A wake-up that finds nothing new sleeps again and changes no state.)
WaitReturn(c) ==
  /\ pc[c] = "wait"
  /\ Ready(op[c], task_response)
  /\ LET d == Disconnect(is_alive, poller, polling_task)
     IN  /\ is_alive' = d.is_alive
         /\ poller' = d.poller
  /\ pc' = [pc EXCEPT ![c] = "done"]
  /\ ret' = [ret EXCEPT ![c] = Value(op[c], task_response)]
  /\ UNCHANGED <<task_response, polling_task, event_futures, fut, last_event_t, op, arg>>
  /\ UNCHANGED srvVars
  /\ UNCHANGED <<toolVars, utilVars>>

\* The deadline path that raises without leaving the connection.
WaitTimeoutKeepsCount(c) ==
  /\ pc[c] = "wait"
  /\ arg[c].timeout # <<>>
  /\ pc' = [pc EXCEPT ![c] = "done"]
  /\ ret' = [ret EXCEPT ![c] = Raised("TimeoutError")]
  /\ UNCHANGED <<handleVars, op, arg, srvVars>>
  /\ UNCHANGED <<toolVars, utilVars>>

\* An accessor wakes from asyncio.sleep(0.2) after its deadline: the loop ends,
\* _connection disconnects and TimeoutError is raised.
WaitTimeout(c) ==
  /\ pc[c] = "wait"
  /\ arg[c].timeout # <<>>
  /\ LET d == Disconnect(is_alive, poller, polling_task)
     IN  /\ is_alive' = d.is_alive
         /\ poller' = d.poller
  /\ pc' = [pc EXCEPT ![c] = "done"]
  /\ ret' = [ret EXCEPT ![c] = DeadlineError(op[c], task_response)]
  /\ UNCHANGED <<task_response, polling_task, event_futures, fut, last_event_t, op, arg>>
  /\ UNCHANGED srvVars
  /\ UNCHANGED <<toolVars, utilVars>>

\* _send_event that sends the event without having registered a future.
CallActionNoRegister(c) ==
  /\ CanCall(c)
  /\ op' = [op EXCEPT ![c] = "action"]
  /\ pc' = [pc EXCEPT ![c] = "send"]
  /\ UNCHANGED <<handleVars, arg, ret, srvVars>>
  /\ UNCHANGED <<toolVars, utilVars>>

\* goto / extract / evaluate_js / run_task: _send_event(has_result=True) up to
\* `await self._client._send_task_event`.  The event id is fresh (the caller's
\* index stands for the generated id); the future is registered before sending.
CallAction(c) ==
  /\ CanCall(c)
  /\ op' = [op EXCEPT ![c] = "action"]
  /\ fut' = [fut EXCEPT ![c] = Pending]
  /\ event_futures' = event_futures \cup {c}
  /\ pc' = [pc EXCEPT ![c] = "send"]
  /\ UNCHANGED <<is_alive, task_response, polling_task, poller, last_event_t, arg, ret>>
  /\ UNCHANGED srvVars
  /\ UNCHANGED <<toolVars, utilVars>>

\* _send_task_event returned: the server has the event; the caller connects
\* and awaits its future.
SendOk(c) ==
  /\ pc[c] = "send"
  /\ srv_inbox' = srv_inbox \cup {c}
  /\ Connect(c, "action", <<>>)
  /\ UNCHANGED <<task_response, polling_task, event_futures, fut, last_event_t, op, arg, srv_log>>
  /\ UNCHANGED <<toolVars, utilVars>>

\* _send_event that swallows the error of _send_task_event and goes on to
\* await its future.
SendFailThenWaits(c) ==
  /\ pc[c] = "send"
  /\ Connect(c, "action", <<>>)
  /\ UNCHANGED <<task_response, polling_task, event_futures, fut, last_event_t, op, arg, srv_inbox, srv_log>>
  /\ UNCHANGED <<toolVars, utilVars>>

\* _send_task_event raised: the error propagates out of the action call.
SendFail(c) ==
  /\ pc[c] = "send"
  /\ pc' = [pc EXCEPT ![c] = "done"]
  /\ ret' = [ret EXCEPT ![c] = Raised("ApiError")]
  /\ UNCHANGED <<handleVars, op, arg>>
  /\ UNCHANGED srvVars
  /\ UNCHANGED <<toolVars, utilVars>>

\* `await future` resumes once the future is done: its result or exception
\* (CancelledError included) leaves the `async with`, which disconnects.
AwaitDone(c) ==
  /\ pc[c] = "await"
  /\ fut[c] # Pending
  /\ LET d == Disconnect(is_alive, poller, polling_task)
     IN  /\ is_alive' = d.is_alive
         /\ poller' = d.poller
  /\ pc' = [pc EXCEPT ![c] = "done"]
  /\ ret' = [ret EXCEPT ![c] = Outcome(fut[c])]
  /\ UNCHANGED <<task_response, polling_task, event_futures, fut, last_event_t, op, arg>>
  /\ UNCHANGED srvVars
  /\ UNCHANGED <<toolVars, utilVars>>

\* AsyncSessionHandle.__aenter__: _connect only.
CallEnter(c) ==
  /\ CanCall(c)
  /\ op' = [op EXCEPT ![c] = "enter"]
  /\ Connect(c, "enter", <<>>)
  /\ UNCHANGED <<task_response, polling_task, event_futures, fut, last_event_t, arg, srv_inbox, srv_log>>
  /\ UNCHANGED <<toolVars, utilVars>>

\* AsyncSessionHandle.close(force) (also __aexit__) up to its await: the close
\* event or the delete request is on its way.
CallClose(c) ==
  /\ CanCall(c)
  /\ \E f \in BOOLEAN :
       arg' = [arg EXCEPT ![c] = [timeout |-> <<>>, force |-> f]]
  /\ op' = [op EXCEPT ![c] = "close"]
  /\ pc' = [pc EXCEPT ![c] = "close_wait"]
  /\ UNCHANGED <<handleVars, ret>>
  /\ UNCHANGED srvVars
  /\ UNCHANGED <<toolVars, utilVars>>

\* close: the transport call returned; the server has the close event, or,
\* for a forced close, the delete request, which ends the task.  Then
\* self._disconnect(); close has no return statement, its value is None.
CloseOk(c) ==
  /\ pc[c] = "close_wait"
  /\ srv' = IF arg[c].force
              THEN [srv EXCEPT !.asked = @ \cup {DeleteTask},
                               !.status = IF @ \in NonTerminal THEN "cancelled" ELSE @]
              ELSE [srv EXCEPT !.asked = @ \cup {CloseEvent}]
  /\ LET d == Disconnect(is_alive, poller, polling_task)
     IN  /\ is_alive' = d.is_alive
         /\ poller' = d.poller
  /\ pc' = [pc EXCEPT ![c] = "done"]
  /\ ret' = [ret EXCEPT ![c] = Raised("closed")]
  /\ UNCHANGED <<task_response, polling_task, event_futures, fut, last_event_t, op, arg, srv_inbox, srv_log>>
  /\ UNCHANGED <<toolVars, utilVars>>

\* AsyncSessionHandle.__aexit__ for the scope caller c entered: close(force=
\* False) if the body ended without an exception (exc FALSE), close(force=True)
\* otherwise; up to the await of the transport call.
ScopeExit(c, exc) ==
  /\ op[c] = "enter"
  /\ pc[c] = "done"
  /\ ret[c] = Raised("entered")
  /\ \A d \in Callers : pc[d] \in {"idle", "done"}
  /\ arg' = [arg EXCEPT ![c] = [timeout |-> <<>>, force |-> exc]]
  /\ op' = [op EXCEPT ![c] = "close"]
  /\ pc' = [pc EXCEPT ![c] = "close_wait"]
  /\ UNCHANGED <<handleVars, ret>>
  /\ UNCHANGED srvVars
  /\ UNCHANGED <<toolVars, utilVars>>

\* close: the transport call raised; close raises before its _disconnect.
CloseFail(c) ==
  /\ pc[c] = "close_wait"
  /\ pc' = [pc EXCEPT ![c] = "done"]
  /\ ret' = [ret EXCEPT ![c] = Raised("ApiError")]
  /\ UNCHANGED <<handleVars, op, arg>>
  /\ UNCHANGED srvVars
  /\ UNCHANGED <<toolVars, utilVars>>

\* ------------------------------------------------------------- the poller
\* The finally block of _poller, then the task is done.
PollerExit(p, tab, fs, tt, tl) ==
  /\ fut' = CleanupFutures(tab, fs)
  /\ event_futures' = {}
  /\ tool' = CancelTools(tt, tl)
  /\ tool_tasks' = {}
  /\ poller' = [poller EXCEPT ![p] = "done"]

\* The poller task runs for the first time: the loop condition is tested.
PollStart(p) ==
  /\ poller[p] = "created"
  /\ IF is_alive > 0
       THEN /\ poller' = [poller EXCEPT ![p] = "sleeping"]
            /\ UNCHANGED <<fut, event_futures, tool_tasks, tool>>
       ELSE PollerExit(p, event_futures, fut, tool_tasks, tool)
  /\ UNCHANGED <<is_alive, task_response, polling_task, last_event_t, pc, op, arg, ret>>
  /\ UNCHANGED <<srvVars, srv_replies, utilVars>>

\* asyncio.sleep(poll_interval) ends: the poller issues its _get_task.
PollWake(p) ==
  /\ poller[p] = "sleeping"
  /\ poller' = [poller EXCEPT ![p] = "fetching"]
  /\ srv' = Request(srv)
  /\ UNCHANGED <<is_alive, task_response, polling_task, event_futures, fut, last_event_t, pc, op, arg, ret, srv_inbox, srv_log>>
  /\ UNCHANGED <<toolVars, utilVars>>

\* The poller step that tests the status before it stores the response: a
\* terminal snapshot is not cached.
PollFetchOkStopFirst(p) ==
  /\ poller[p] = "fetching"
  /\ LET evs == ResponseEvents(last_event_t)
         done == ProcessEvents(evs, event_futures, fut)
         run == Dispatch(evs, tool_tasks, tool)
     IN  IF HardStop(Snapshot)
           THEN /\ PollerExit(p, event_futures, fut, tool_tasks, tool)
                /\ UNCHANGED <<last_event_t, task_response>>
           ELSE /\ task_response' = Snapshot
                /\ last_event_t' = LastTimestamp(last_event_t)
                /\ IF is_alive > 0 /\ ~ReapRaises(run.tab, run.tool)
                     THEN /\ fut' = done.fut
                          /\ event_futures' = done.tab
                          /\ tool_tasks' = run.tab
                          /\ tool' = run.tool
                          /\ poller' = [poller EXCEPT ![p] = "sleeping"]
                     ELSE PollerExit(p, done.tab, done.fut, run.tab, run.tool)
  /\ UNCHANGED <<is_alive, polling_task, pc, op, arg, ret>>
  /\ UNCHANGED <<srvVars, srv_replies, utilVars>>

\* _get_task returns in the poller: the snapshot replaces the cached one; a
\* status that is not running or waiting raises RuntimeError (events are not
\* read); otherwise the watermark advances, the events are processed and the
\* loop condition is tested again.
PollFetchOk(p) ==
  /\ poller[p] = "fetching"
  /\ task_response' = Snapshot
  /\ LET evs == ResponseEvents(last_event_t)
         done == ProcessEvents(evs, event_futures, fut)
         run == Dispatch(evs, tool_tasks, tool)
     IN  IF HardStop(Snapshot)
           THEN /\ PollerExit(p, event_futures, fut, tool_tasks, tool)
                /\ last_event_t' = last_event_t
           ELSE /\ last_event_t' = LastTimestamp(last_event_t)
                /\ IF is_alive > 0 /\ ~ReapRaises(run.tab, run.tool)
                     THEN /\ fut' = done.fut
                          /\ event_futures' = done.tab
                          /\ tool_tasks' = run.tab
                          /\ tool' = run.tool
                          /\ poller' = [poller EXCEPT ![p] = "sleeping"]
                     ELSE PollerExit(p, done.tab, done.fut, run.tab, run.tool)
  /\ UNCHANGED <<is_alive, polling_task, pc, op, arg, ret>>
  /\ UNCHANGED <<srvVars, srv_replies, utilVars>>

\* _get_task raises in the poller: the error leaves the loop through finally.
PollFetchFail(p) ==
  /\ poller[p] = "fetching"
  /\ PollerExit(p, event_futures, fut, tool_tasks, tool)
  /\ UNCHANGED <<is_alive, task_response, polling_task, last_event_t, pc, op, arg, ret>>
  /\ UNCHANGED <<srvVars, srv_replies, utilVars>>

\* The CancelledError requested by _disconnect is delivered.  At one of the
\* awaits it is caught and finally runs; a task cancelled before its first
\* step never enters the try, so nothing is cleaned up.
PollCancelled(p) ==
  /\ poller[p] \in {"cancel_created", "cancel_wait"}
  /\ IF poller[p] = "cancel_wait"
       THEN PollerExit(p, event_futures, fut, tool_tasks, tool)
       ELSE /\ poller' = [poller EXCEPT ![p] = "done"]
            /\ UNCHANGED <<fut, event_futures, tool_tasks, tool>>
  /\ UNCHANGED <<is_alive, task_response, polling_task, last_event_t, pc, op, arg, ret>>
  /\ UNCHANGED <<srvVars, srv_replies, utilVars>>

\* ---------------------------------------------------------- tool tasks
\* SmoothTool._run_fn hands the function to asyncio.to_thread and an async
\* tool awaits its function: no tool function runs on the event loop itself.
RunsOnLoopIfSync(k) == k.sync

RunsOnLoop(k) == FALSE

\* The event loop can run a callback: no tool function is occupying it.
LoopFree ==
  \A t \in ToolIds : ~(tool[t].state \in {"running", "blocked"} /\ RunsOnLoop(tool[t].kind))

\* The task created for a tool call runs for the first time: _run_tool awaits
\* the tool, which starts its function.
ToolStart(t) ==
  /\ tool[t].state = "created"
  /\ tool' = [tool EXCEPT ![t].state = "running"]
  /\ UNCHANGED <<handleVars, pc, op, arg, ret, tool_tasks, srv_replies>>
  /\ UNCHANGED <<srvVars, utilVars>>

\* The tool function ends by returning or raising; _handle_tool_response
\* builds the reply and awaits _send_task_event.
ToolReturn(t, o) ==
  /\ tool[t].state = "running"
  /\ tool' = [tool EXCEPT ![t].state = "replying", ![t].outcome = o]
  /\ UNCHANGED <<handleVars, pc, op, arg, ret, tool_tasks, srv_replies>>
  /\ UNCHANGED <<srvVars, utilVars>>

\* _send_task_event returns: the server has the reply, a tool_call event with
\* the id of the call.  The handler then returns or re-raises.  What it raises
\* inside the try block of __call__ is caught by `except Exception`, which
\* hands the exception to the handler once more; otherwise the task ends and
\* finally of _run_tool removes it from the table.
ToolReplied(t) ==
  /\ tool[t].state = "replying"
  /\ LET r == ToolReply(tool[t].outcome, tool[t].kind)
     IN  srv_replies' = srv_replies \cup
           {[name |-> "tool_call", id |-> t, code |-> r.code, output |-> r.output]}
  /\ LET o == tool[t].outcome
         again == Reraises(o, tool[t].kind) /\ InTry(o)
     IN  /\ tool' = [tool EXCEPT
                       ![t].sent = @ + 1,
                       ![t].outcome = IF again THEN "Exception" ELSE @,
                       ![t].state = IF again THEN "replying"
                                    ELSE IF Reraises(o, tool[t].kind) THEN "failed" ELSE "done"]
         /\ tool_tasks' = IF again THEN tool_tasks ELSE tool_tasks \ {t}
  /\ UNCHANGED <<handleVars, pc, op, arg, ret>>
  /\ UNCHANGED <<srvVars, utilVars>>

\* _send_task_event raises in the handler: the server gets no reply.  Inside
\* the try block of __call__ the error is caught and handed to the handler
\* as the response, an exception that is not a ToolCallError; in the except
\* clause it leaves __call__ and the task ends with it.
ToolReplyFails(t) ==
  /\ tool[t].state = "replying"
  /\ IF InTry(tool[t].outcome)
       THEN /\ tool' = [tool EXCEPT ![t].outcome = "Exception"]
            /\ tool_tasks' = tool_tasks
       ELSE /\ tool' = [tool EXCEPT ![t].state = "failed"]
            /\ tool_tasks' = tool_tasks \ {t}
  /\ UNCHANGED <<handleVars, pc, op, arg, ret, srv_replies>>
  /\ UNCHANGED <<srvVars, utilVars>>

\* The function of a synchronous tool calls an action on the synchronous
\* handle it was given: _run_async submits the coroutine to the event loop and
\* the function waits for its result.  ThreadCaller is the caller identity of
\* that coroutine.
ThreadCaller == 2

ThreadCall(t) ==
  /\ tool[t].state = "running"
  /\ tool[t].kind.sync
  /\ pc[ThreadCaller] = "idle"
  /\ \A u \in ToolIds : tool[u].state # "blocked"
  /\ tool' = [tool EXCEPT ![t].state = "blocked"]
  /\ UNCHANGED <<handleVars, pc, op, arg, ret, tool_tasks, srv_replies>>
  /\ UNCHANGED <<srvVars, utilVars>>

\* The submitted coroutine has finished: the function goes on.
ThreadResume(t) ==
  /\ tool[t].state = "blocked"
  /\ pc[ThreadCaller] = "done"
  /\ tool' = [tool EXCEPT ![t].state = "running"]
  /\ UNCHANGED <<handleVars, pc, op, arg, ret, tool_tasks, srv_replies>>
  /\ UNCHANGED <<srvVars, utilVars>>

\* The CancelledError requested by the poller's cleanup is delivered to a tool
\* task: at its await, finally of _run_tool runs; a task that never ran has
\* no finally to run.
ToolCancelled(t) ==
  /\ tool[t].state \in {"cancel_created", "cancel_wait"}
  /\ tool' = [tool EXCEPT ![t].state = "cancelled"]
  /\ tool_tasks' = IF tool[t].state = "cancel_wait" THEN tool_tasks \ {t} ELSE tool_tasks
  /\ UNCHANGED <<handleVars, pc, op, arg, ret, srv_replies>>
  /\ UNCHANGED <<srvVars, utilVars>>

\* ------------------------------------------------------------- the server
\* The task ends on the server with some output.
ServerFinish ==
  /\ srv.status \in NonTerminal
  /\ srv' = [srv EXCEPT !.status = srv.final.status, !.output = srv.final.output]
  /\ UNCHANGED <<handleVars, pc, op, arg, ret, srv_inbox, srv_log>>
  /\ UNCHANGED <<toolVars, utilVars>>

\* The server publishes the live URL of the running task.
ServerLive ==
  /\ srv.status \in NonTerminal
  /\ srv.live_url = None
  /\ srv' = [srv EXCEPT !.live_url = "url"]
  /\ UNCHANGED <<handleVars, pc, op, arg, ret, srv_inbox, srv_log>>
  /\ UNCHANGED <<toolVars, utilVars>>

\* The server starts to deliver event k of the log once more with every
\* response.
ServerStale(k) ==
  /\ srv.status \in NonTerminal
  /\ srv.resend = 0
  /\ k \in 1..Len(srv_log)
  /\ srv' = [srv EXCEPT !.resend = k]
  /\ UNCHANGED <<handleVars, pc, op, arg, ret, srv_inbox, srv_log>>
  /\ UNCHANGED <<toolVars, utilVars>>

\* The server populates the recording_url of the task: the URL of the
\* recording, or the empty string when recording was not enabled.
ServerRecording(v) ==
  /\ srv.recording_url = None
  /\ srv' = [srv EXCEPT !.recording_url = v]
  /\ UNCHANGED <<handleVars, pc, op, arg, ret, srv_inbox, srv_log>>
  /\ UNCHANGED <<toolVars, utilVars>>

\* The server populates the downloads_url of the task (the empty string: no
\* file was downloaded); plain tells whether it also reports the field in the
\* snapshots fetched without the downloads filter.
ServerDownloads(v, plain) ==
  /\ srv.downloads_url = None
  /\ srv' = [srv EXCEPT !.downloads_url = v, !.downloads_plain = plain]
  /\ UNCHANGED <<handleVars, pc, op, arg, ret, srv_inbox, srv_log>>
  /\ UNCHANGED <<toolVars, utilVars>>

\* The server answers a browser_action event it received: a reply event with
\* the same id, a payload code and an output is appended to the task's event
\* log.  The output <<i, n>> is the answer to event i carried by the n-th
\* event of the log: every reply has an output of its own.
ServerReply(i) ==
  /\ srv.status \in NonTerminal
  /\ i \in srv_inbox
  /\ \E code \in Codes :
       srv_log' = Append(srv_log, BrowserEvent(i, code, <<i, Len(srv_log) + 1>>))
  /\ srv_inbox' = srv_inbox \ {i}
  /\ UNCHANGED <<handleVars, pc, op, arg, ret, srv>>
  /\ UNCHANGED <<toolVars, utilVars>>

\* The server delivers once more the reply to an event it has answered: an
\* event with the same id, and any code, is appended to the log.
ServerRepeat(i) ==
  /\ srv.status \in NonTerminal
  /\ Len(srv_log) < MaxLog
  /\ \E k \in 1..Len(srv_log) : srv_log[k].id = i
  /\ \E code \in Codes :
       srv_log' = Append(srv_log, BrowserEvent(i, code, <<i, Len(srv_log) + 1>>))
  /\ UNCHANGED <<handleVars, pc, op, arg, ret, srv, srv_inbox>>
  /\ UNCHANGED <<toolVars, utilVars>>

\* ---------------------------------------------------------- specifications
\* Steps every specification shares: _connect after its first await, and the
\* poller task.
ConnSteps(c) == ConnFetchOk(c) \/ ConnLaunch(c)
PollSteps(p) == PollStart(p) \/ PollWake(p) \/ PollFetchOk(p) \/ PollCancelled(p)
\* The poller of a handle that nobody disconnects from.
PollLoop(p) == PollStart(p) \/ PollWake(p) \/ PollFetchOk(p)
WaitSteps(c) == WaitReturn(c) \/ WaitTimeout(c)

\* The accessors and the session operations, MaxCalls calls, a free-running
\* server and a transport that may fail.
Next ==
  \/ \E c \in 1..MaxCalls :
        CallResult(c) \/ CallLiveUrl(c) \/ CallEnter(c) \/ CallClose(c)
  \/ \E c \in Callers :
        \/ ConnSteps(c) \/ WaitSteps(c) \/ PollSteps(c)
        \/ ConnFetchFail(c) \/ PollFetchFail(c)
        \/ CloseOk(c) \/ CloseFail(c)
  \/ ServerFinish
  \/ ServerLive

Spec == Init /\ [][Next]_vars

\* A session used by NCallers concurrent callers: result, __aenter__ and close.
NextSession ==
  \/ \E c \in Callers :
        \/ CallResult(c) \/ CallEnter(c) \/ CallClose(c)
        \/ ConnSteps(c) \/ WaitSteps(c) \/ PollSteps(c)
        \/ CloseOk(c)
  \/ ServerFinish

SpecSession == Init /\ [][NextSession]_vars

\* One result() call on a fresh handle whose transport is the scripted server.
NextScript ==
  \E c \in {1} :
     \/ CallResult(c)
     \/ ConnSteps(c)
     \/ WaitSteps(c)
     \/ PollSteps(c)

\* The event loop runs every task that is ready and the stub always answers:
\* the steps of _connect, of the poller and of a waiter that can return are
\* taken once they are enabled.  A deadline may or may not pass.
SpecScript ==
  /\ InitScript
  /\ [][NextScript]_vars
  /\ WF_vars(ConnSteps(1))
  /\ WF_vars(PollSteps(1))
  /\ WF_vars(WaitReturn(1))

\* Fairness of the event loop for caller c: _connect and the poller task that
\* it launched run on once they can.
LoopRuns(c) == WF_vars(ConnSteps(c)) /\ WF_vars(PollSteps(c))

\* Concurrent result() calls on a task that never ends: every fetch returns a
\* non-terminal status.  Time passes, so a deadline that is set does pass.
NextNever ==
  \E c \in Callers :
     \/ CallResult(c)
     \/ ConnSteps(c)
     \/ PollSteps(c)
     \/ WaitTimeout(c)

SpecNever ==
  /\ Init
  /\ [][NextNever]_vars
  /\ \A c \in Callers : LoopRuns(c) /\ WF_vars(WaitTimeout(c))

\* Accessors sharing the handle while the task runs and ends on the server:
\* MaxCalls calls of result() or live_url().  A waiter that can return does;
\* the task does end; a deadline may or may not pass.
NextShared ==
  \/ \E c \in 1..MaxCalls : CallResult(c) \/ CallLiveUrl(c)
  \/ \E c \in Callers : ConnSteps(c) \/ WaitSteps(c) \/ PollSteps(c)
  \/ ServerFinish
  \/ ServerLive

SpecShared ==
  /\ Init
  /\ [][NextShared]_vars
  /\ \A c \in Callers : LoopRuns(c) /\ WF_vars(WaitReturn(c))
  /\ WF_vars(ServerFinish)

\* A session that is entered and driven by action calls (goto, extract,
\* evaluate_js) while the server answers them, the task may end and a fetch of
\* the poller may fail.  Requests are answered and ready tasks run.
NextActions ==
  \/ \E c \in 1..MaxCalls : CallEnter(c) \/ CallAction(c)
  \/ \E c \in Callers :
        \/ SendOk(c) \/ SendFail(c) \/ AwaitDone(c)
        \/ ConnSteps(c) \/ PollSteps(c) \/ PollFetchFail(c)
        \/ ServerReply(c)
  \/ ServerFinish

SpecActions ==
  /\ Init
  /\ [][NextActions]_vars
  /\ \A c \in Callers :
        /\ LoopRuns(c)
        /\ WF_vars(SendOk(c)) /\ WF_vars(AwaitDone(c)) /\ WF_vars(ServerReply(c))

\* Action calls on a session that is closed, without having been entered, while
\* they are outstanding (the command line closes a session this way).
NextClose ==
  \/ \E c \in 1..MaxCalls : CallAction(c) \/ CallClose(c)
  \/ \E c \in Callers :
        \/ SendOk(c) \/ AwaitDone(c) \/ CloseOk(c)
        \/ ConnSteps(c) \/ PollSteps(c)
        \/ ServerReply(c)

SpecClose ==
  /\ Init
  /\ [][NextClose]_vars
  /\ \A c \in Callers :
        /\ LoopRuns(c)
        /\ WF_vars(SendOk(c)) /\ WF_vars(AwaitDone(c)) /\ WF_vars(CloseOk(c))

\* A task that keeps running on the server.
InitRunning == Fresh /\ srv = Server("running", <<>>, [status |-> "done", output |-> "x"])

\* MaxCalls action calls outstanding on one handle, answered by the server in
\* any order.
NextReplies ==
  \/ \E c \in 1..MaxCalls : CallAction(c)
  \/ \E c \in Callers :
        \/ SendOk(c) \/ AwaitDone(c)
        \/ ConnSteps(c) \/ PollSteps(c)
        \/ ServerReply(c)

SpecReplies == InitRunning /\ [][NextReplies]_vars

\* An entered session and one action call on it, whose reply the server
\* delivers more than once.
NextRepeat ==
  \/ CallEnter(1)
  \/ CallAction(2)
  \/ \E c \in Callers :
        \/ SendOk(c) \/ AwaitDone(c)
        \/ ConnSteps(c) \/ PollLoop(c)
        \/ ServerReply(c) \/ ServerRepeat(c)

SpecRepeat == InitRunning /\ [][NextRepeat]_vars

\* Every caller has returned from _connect (or from its whole call).
\* The agent calls a tool: a tool_call event with a new id (the first unused
\* one) is appended to the log, naming a tool of kind k (<<k>>) or a tool that
\* is not registered (<<>>).
ServerToolCall(t, k) ==
  /\ srv.status \in NonTerminal
  /\ \A j \in 1..Len(srv_log) : srv_log[j].id # t
  /\ \A u \in ToolIds : u < t => \E j \in 1..Len(srv_log) : srv_log[j].id = u
  /\ srv_log' = Append(srv_log, ToolEvent(t, k))
  /\ UNCHANGED <<handleVars, pc, op, arg, ret, srv, srv_inbox>>
  /\ UNCHANGED <<toolVars, utilVars>>

ToolSteps(t) == ToolStart(t) \/ (\E o \in Outcomes : ToolReturn(t, o)) \/ ToolReplied(t) \/ ToolCancelled(t)

\* tool calls: an entered session keeps the poller running while the agent
\* calls asynchronous tools without an error message.
PlainKinds == {k \in ToolKinds : ~k.sync /\ k.error_message = <<>>}

NextTools ==
  \/ CallEnter(1)
  \/ ConnSteps(1)
  \/ \E p \in Callers : PollLoop(p)
  \/ \E t \in ToolIds : ToolSteps(t)
  \/ \E t \in ToolIds : \E k \in PlainKinds : ServerToolCall(t, <<k>>)
  \/ ServerFinish

SpecTools ==
  /\ InitRunning
  /\ [][NextTools]_vars
  /\ WF_vars(ConnSteps(1))
  /\ \A p \in Callers : WF_vars(PollLoop(p))
  /\ \A t \in ToolIds : WF_vars(ToolSteps(t))

\* tool replies: the agent calls asynchronous tools of every configuration,
\* and tools that are not registered.
AsyncKinds == {k \in ToolKinds : ~k.sync}

NextToolReply ==
  \/ CallEnter(1)
  \/ ConnSteps(1)
  \/ \E p \in Callers : PollLoop(p)
  \/ \E t \in ToolIds : ToolSteps(t)
  \/ \E t \in ToolIds : \E k \in AsyncKinds : ServerToolCall(t, <<k>>)
  \/ \E t \in ToolIds : ServerToolCall(t, <<>>)
  \/ ServerFinish

SpecToolReply == InitRunning /\ [][NextToolReply]_vars

\* synchronous tools: an entered session keeps the poller running; the agent
\* calls synchronous tools, one of which calls an action on its handle; the
\* steps of the event loop need the loop.
SyncKinds == {k \in ToolKinds : k.sync /\ ~k.essential /\ k.error_message = <<>>}

ThreadStart == (\E t \in ToolIds : tool[t].state = "blocked") /\ CallAction(ThreadCaller)

LoopSteps ==
  \/ CallEnter(1)
  \/ ThreadStart
  \/ \E c \in Callers : ConnSteps(c) \/ PollLoop(c) \/ SendOk(c) \/ AwaitDone(c)
  \/ \E t \in ToolIds : ToolStart(t) \/ ToolReplied(t)

NextSync ==
  \/ LoopFree /\ LoopSteps
  \/ \E t \in ToolIds : ThreadCall(t) \/ ThreadResume(t)
  \/ \E t \in ToolIds : \E o \in Outcomes : ToolReturn(t, o)
  \/ \E t \in ToolIds : \E k \in SyncKinds : ServerToolCall(t, <<k>>)
  \/ \E c \in Callers : ServerReply(c)

SpecSync ==
  /\ InitRunning
  /\ [][NextSync]_vars
  /\ WF_vars(LoopFree /\ ThreadStart)
  /\ \A c \in Callers :
        /\ WF_vars(LoopFree /\ ConnSteps(c))
        /\ WF_vars(LoopFree /\ PollLoop(c))
        /\ WF_vars(LoopFree /\ SendOk(c))
        /\ WF_vars(LoopFree /\ AwaitDone(c))
  /\ \A t \in ToolIds : WF_vars(ThreadResume(t))
  /\ \A c \in Callers : WF_vars(ServerReply(c))

\* a session used as a scope: caller 1 enters, the body may call an action
\* (caller 2) and wait for it, and the scope is left with or without an
\* exception; every transport call can fail.
NextScope ==
  \/ CallEnter(1)
  \/ (op[1] = "enter" /\ pc[1] = "done") /\ CallAction(2)
  \/ \E exc \in BOOLEAN : ScopeExit(1, exc)
  \/ \E c \in Callers :
        \/ ConnSteps(c) \/ PollSteps(c)
        \/ SendOk(c) \/ SendFail(c) \/ AwaitDone(c)
        \/ CloseOk(c) \/ CloseFail(c)
        \/ ServerReply(c)
  \/ ServerFinish

SpecScope == InitRunning /\ [][NextScope]_vars

\* recording_url: callers ask for the recording while the server populates
\* the field and ends the task.
NextRecording ==
  \/ \E c \in 1..MaxCalls : CallRecordingUrl(c)
  \/ \E c \in Callers : ConnSteps(c) \/ WaitSteps(c) \/ PollSteps(c)
  \/ \E v \in {"", "rec"} : ServerRecording(v)
  \/ ServerFinish

SpecRecording == Init /\ [][NextRecording]_vars

\* downloads_url: callers ask for the downloads while the server populates
\* the field and ends the task.
NextDownloads ==
  \/ \E c \in 1..MaxCalls : CallDownloadsUrl(c)
  \/ \E c \in Callers :
        \/ ConnSteps(c) \/ WaitTimeout(c) \/ PollSteps(c)
        \/ DlCheck(c) \/ DlFetchOk(c) \/ DlFetchFail(c)
  \/ \E v \in {"", "dl"} : \E plain \in BOOLEAN : ServerDownloads(v, plain)
  \/ ServerFinish

SpecDownloads == Init /\ [][NextDownloads]_vars

\* old events: an entered session and action calls on it, with a server that
\* may deliver an event of the log again.
NextStale ==
  \/ CallEnter(1)
  \/ \E c \in 2..(MaxCalls + 1) : CallAction(c)
  \/ \E c \in Callers :
        \/ SendOk(c) \/ AwaitDone(c)
        \/ ConnSteps(c) \/ PollLoop(c)
        \/ ServerReply(c)
  \/ \E k \in 1..MaxLog : ServerStale(k)

SpecStale == InitRunning /\ [][NextStale]_vars

AllIn == \A c \in Callers : pc[c] \in {"wait", "done"}

\* NCallers concurrent waiters, result(timeout) or live_url(timeout), on a task
\* that keeps running: all of them connect, then they leave one at a time,
\* when their deadline passes or when the live URL they wait for is cached.
NextRef ==
  \E c \in Callers :
     \/ CallResult(c) /\ arg'[c].timeout = <<1>>
     \/ CallLiveUrl(c) /\ arg'[c].timeout # <<0>>
     \/ ConnSteps(c)
     \/ PollSteps(c)
     \/ AllIn /\ (WaitSteps(c) \/ ServerLive)

SpecRef == Init /\ [][NextRef]_vars

\* ------------------------------------------------------------------ claims
Running == {"created", "sleeping", "fetching"}
\* A poller task that exists and has not been asked to stop.
PollerRunning == \E p \in Callers : poller[p] \in Running
\* A first connect is between its increment and the launch of the poller.
PollerStarting == \E c \in Callers : pc[c] \in {"conn_fetch", "conn_stagger"}

\* C1: in every reachable state a poller is running (or being started by the
\* first connect) if and only if the reference count is greater than 0.
C1_PollerIffCount == (is_alive > 0) <=> (PollerRunning \/ PollerStarting)

\* C2: at most one poller task exists at any time, under any interleaving of
\* result, __aenter__ and close on one handle.  Only tasks inside their poll
\* loop are counted: one just created or asked to stop is left out.
C2_OnePoller == Cardinality({p \in Callers : poller[p] \in {"sleeping", "fetching"}}) <= 1

\* C3: once all the concurrent waiters have connected, and while they
\* disconnect one at a time, the count is the number of waiters still
\* connected, one poller task has been launched in all, it is running as long
\* as a waiter is left and it has been stopped once none is.
C3_RefCounting ==
  AllIn =>
    /\ Cardinality({p \in Callers : poller[p] # "none"}) = 1
    /\ polling_task # 0
    /\ is_alive = Cardinality({c \in Callers : pc[c] = "wait"})
    /\ IF is_alive > 0
         THEN poller[polling_task] \in Running
         ELSE poller[polling_task] \in {"cancel_created", "cancel_wait", "done"}

\* C3 witness: all but one of the waiters have disconnected and the poller is
\* inside its loop.
C3_Witness ==
  /\ AllIn
  /\ Cardinality({c \in Callers : pc[c] = "done"}) = NCallers - 1
  /\ polling_task # 0
  /\ poller[polling_task] \in {"sleeping", "fetching"}

\* A step in which caller c runs _disconnect.
DisconnectStep(c) ==
  \/ pc[c] \in {"wait", "await"} /\ pc'[c] = "done"
  \/ pc[c] = "close_wait" /\ pc'[c] = "done" /\ ret'[c].tag = "closed"
  \/ pc[c] = "conn_stagger" /\ pc'[c] = "done" /\ op[c] # "enter"

\* C4: the reference count is never negative; a disconnect at count 0 leaves
\* it at 0 and every other disconnect lowers it by exactly 1.
C4_CountNeverNegative ==
  /\ [](is_alive >= 0)
  /\ [][\A c \in Callers : DisconnectStep(c) =>
          is_alive' = IF is_alive = 0 THEN 0 ELSE is_alive - 1]_vars

\* C4 witness: a close has run its disconnect on a handle nobody had connected.
C4_Witness ==
  \E c \in Callers :
    /\ op[c] = "close" /\ pc[c] = "done" /\ ret[c].tag = "closed"
    /\ is_alive = 0
    /\ \A d \in Callers \ {c} : pc[d] = "idle"

\* C5: result() called while the cached snapshot is terminal returns that
\* snapshot in the same step: no transport call is started, and the count,
\* the poller tasks, the cached snapshot and the server are left as they were.
C5_ResultFastPath ==
  [][\A c \in Callers :
       (pc[c] = "idle" /\ op'[c] = "result" /\ Terminated(task_response)) =>
         /\ pc'[c] = "done"
         /\ ret'[c] = Ret("snapshot", task_response)
         /\ UNCHANGED <<is_alive, poller, polling_task, task_response, srv>>]_vars

\* C5 witness: a result() call whose timeout would have been rejected has
\* returned the cached snapshot of a failed task, which only the fast path
\* does, while the handle had no connection.
C5_Witness ==
  \E c \in Callers :
    /\ op[c] = "result" /\ pc[c] = "done" /\ arg[c].timeout = <<0>>
    /\ ret[c] = Ret("snapshot", task_response)
    /\ task_response.status = "failed"
    /\ is_alive = 0

\* C6 as claimed: result(timeout) with timeout < 1 raises the validation
\* error whatever the state of the handle.
C6_AlwaysValueError ==
  [][\A c \in Callers :
       (pc[c] = "idle" /\ op'[c] = "result" /\ arg'[c].timeout # <<>> /\ arg'[c].timeout[1] < 1) =>
         /\ pc'[c] = "done"
         /\ ret'[c].tag = "ValueError"
         /\ UNCHANGED <<is_alive, poller, polling_task>>]_vars

\* C6 amended: result(timeout) with timeout < 1 raises the validation error
\* unless the cached snapshot is already terminal, in which case it returns
\* that snapshot; either way no transport call is started and the count and
\* the poller tasks are unchanged.
C6_ValueErrorUnlessCached ==
  [][\A c \in Callers :
       (pc[c] = "idle" /\ op'[c] = "result" /\ arg'[c].timeout # <<>> /\ arg'[c].timeout[1] < 1) =>
         /\ pc'[c] = "done"
         /\ ret'[c] = IF Terminated(task_response) THEN Ret("snapshot", task_response)
                                                  ELSE Raised("ValueError")
         /\ UNCHANGED <<is_alive, poller, polling_task, task_response, srv>>]_vars

\* C6 witness: result(timeout=0) has raised ValueError while another caller
\* holds a connection.
C6_Witness ==
  \E c \in Callers :
    /\ op[c] = "result" /\ arg[c].timeout = <<0>> /\ ret[c].tag = "ValueError"
    /\ is_alive > 0

\* C7: against a server that answers k calls with a non-terminal status and
\* then with the finished task, a result() call that does not time out
\* returns a snapshot with the final status and output, and the server has
\* then been called exactly k + 1 times; a call without a timeout does return.
C7_ScriptedResult ==
  /\ [](\A c \in Callers :
         (op[c] = "result" /\ pc[c] = "done" /\ ret[c].tag \notin {"TimeoutError", "ValueError"}) =>
           /\ ret[c].tag = "snapshot"
           /\ ret[c].status = srv.final.status
           /\ ret[c].output = srv.final.output
           /\ srv.call_count = srv.plan[1] + 1)
  /\ \A c \in Callers :
        (op[c] = "result" /\ arg[c].timeout = <<>>) ~> (pc[c] = "done" /\ ret[c].tag = "snapshot")

\* C7 witness: result() has returned the failed task with its output from a
\* server scripted with MaxK non-terminal answers, the last of them obtained
\* by the poller.
C7_Witness ==
  \E c \in Callers :
    /\ op[c] = "result" /\ pc[c] = "done" /\ ret[c].tag = "snapshot"
    /\ ret[c].status = "failed" /\ ret[c].output = "y"
    /\ srv.plan = <<MaxK>>
    /\ poller[c] = "done"

\* C8: while every fetch returns a non-terminal status, result(timeout) with
\* timeout >= 1 eventually raises TimeoutError, no result() call ever returns
\* a snapshot, and the step that raises lowers the count by the one reference
\* the call took.
C8_TimeoutRaised ==
  /\ \A c \in Callers :
        (op[c] = "result" /\ arg[c].timeout # <<>> /\ arg[c].timeout[1] >= 1)
          ~> (pc[c] = "done" /\ ret[c].tag = "TimeoutError")
  /\ [](\A c \in Callers : ret[c].tag # "snapshot")
  /\ [][\A c \in Callers :
          (pc[c] # "done" /\ pc'[c] = "done" /\ ret'[c].tag = "TimeoutError") =>
            is_alive > 0 /\ is_alive' = is_alive - 1]_vars

\* C8 witness: the only connected result(timeout=1) call has raised
\* TimeoutError after the poller went through its loop; the count is back at
\* 0 and the poller has been stopped.
C8_Witness ==
  \E c \in Callers :
    /\ op[c] = "result" /\ arg[c].timeout = <<1>>
    /\ pc[c] = "done" /\ ret[c].tag = "TimeoutError"
    /\ task_response.status = "running"
    /\ is_alive = 0
    /\ poller[c] = "done"

\* Some accessor call has timed out.
TimedOut == \E d \in Callers : ret[d].tag = "TimeoutError"

\* C9: an accessor's timeout that leaves the count above 0 changes no poller
\* task, and a result() waiter without a deadline that is still connected
\* after another accessor timed out does get the finished task.
C9_TimeoutKeepsPoller ==
  /\ [][\A c \in Callers :
          (pc[c] = "wait" /\ pc'[c] = "done" /\ ret'[c].tag = "TimeoutError" /\ is_alive' > 0) =>
            poller' = poller /\ polling_task' = polling_task]_vars
  /\ \A c \in Callers :
        (TimedOut /\ op[c] = "result" /\ arg[c].timeout = <<>> /\ pc[c] = "wait")
          ~> (pc[c] = "done" /\ ret[c].tag = "snapshot" /\ ret[c].status = srv.final.status)

\* C9 witness: one accessor has timed out, a result() waiter is still
\* connected and the poller is inside its loop.
C9_Witness ==
  \E c, d \in Callers :
    /\ pc[d] = "done" /\ ret[d].tag = "TimeoutError"
    /\ op[c] = "result" /\ pc[c] = "wait"
    /\ is_alive = 1
    /\ polling_task # 0 /\ poller[polling_task] \in {"sleeping", "fetching"}

\* The poller task the handle refers to has exited and no first connect is on
\* its way to launch another.
PollerGone ==
  /\ polling_task # 0
  /\ poller[polling_task] = "done"
  /\ ~PollerStarting

\* C10: once the poller has exited, every action call that awaits its
\* correlation future eventually gets a result, an error or a cancellation.
C10_NoActionHangs ==
  \A c \in Callers : (pc[c] = "await" /\ PollerGone) ~> (pc[c] = "done")

\* C11: when the count has reached 0, a caller that still awaits a pending
\* correlation receives a cancellation.
C11_LastDisconnectCancels ==
  \A c \in Callers :
    (is_alive = 0 /\ pc[c] = "await" /\ fut[c] = Pending)
      ~> (pc[c] = "done" /\ ret[c].tag = "cancelled")

\* The states of a future that a reply event has fulfilled.
Fulfilled == {"result", "ToolCallError", "RuntimeError"}
\* The events of the fetch whose response the poller is about to read.
Fetched == EventsAfter(last_event_t)
HasReply(c, evs) == \E k \in 1..Len(evs) : evs[k].id = c
FirstReply(c, evs) ==
  evs[CHOOSE k \in 1..Len(evs) : evs[k].id = c /\ \A j \in 1..(k - 1) : evs[j].id # c]
\* A step in which the poller reads a response with a non-terminal status and
\* goes through its events.
PollerReads ==
  \E p \in Callers :
    /\ poller[p] = "fetching" /\ poller'[p] \in {"sleeping", "done"}
    /\ task_response'.status \in NonTerminal

\* C12: a future leaves the pending state for a fulfilled one only when the
\* poller reads a reply event with its id, and then code 200 gives the result
\* payload.output, 400 a ToolCallError, 500 a RuntimeError, and the entry is
\* out of the table; and a pending entry of the table whose reply the poller
\* reads is fulfilled.
C12_ReplyFulfils ==
  [][\A c \in Callers :
       /\ (fut[c] = Pending /\ fut'[c].state \in Fulfilled) =>
             /\ PollerReads /\ HasReply(c, Fetched)
             /\ LET e == FirstReply(c, Fetched)
                IN  fut'[c] = Fut(CASE e.code = 200 -> "result"
                                    [] e.code = 400 -> "ToolCallError"
                                    [] OTHER -> "RuntimeError", e.output)
             /\ c \notin event_futures'
       /\ (PollerReads /\ fut[c] = Pending /\ c \in event_futures /\ HasReply(c, Fetched)) =>
             fut'[c].state \in Fulfilled]_vars

\* C12 witness: one action call has raised the ToolCallError of its code-400
\* reply and another the RuntimeError of its code-500 reply; the table is
\* empty.
C12_Witness ==
  \E c, d \in Callers :
    /\ pc[c] = "done" /\ ret[c].tag = "ToolCallError" /\ ret[c].value # <<>>
    /\ pc[d] = "done" /\ ret[d].tag = "RuntimeError" /\ ret[d].value # <<>>
    /\ event_futures = {}

\* C13: once a reply event has fulfilled a future, no later step changes it
\* or the outcome its caller received, and a poller that reads another reply
\* with the same id while the handle is connected goes on to its next cycle.
C13_RepeatIgnored ==
  [][\A c \in Callers :
       /\ fut[c].state \in Fulfilled => fut'[c] = fut[c]
       /\ (op[c] = "action" /\ pc[c] = "done") => ret'[c] = ret[c]
       /\ (PollerReads /\ is_alive > 0 /\ fut[c].state \in Fulfilled /\ HasReply(c, Fetched)) =>
             \E p \in Callers : poller[p] = "fetching" /\ poller'[p] = "sleeping"]_vars

\* C13 witness: the caller has received the output of the first reply; the
\* log holds a later reply with the same id and another code, the poller has
\* read it in a later cycle and is in its loop.
C13_Witness ==
  \E c \in Callers : \E k, j \in 1..Len(srv_log) :
    /\ k < j /\ srv_log[k].id = c /\ srv_log[j].id = c /\ srv_log[k].code # srv_log[j].code
    /\ pc[c] = "done" /\ ret[c].value = srv_log[k].output
    /\ last_event_t >= j
    /\ polling_task # 0 /\ poller[polling_task] = "sleeping"

\* C14: whatever the order of the replies, a fulfilled future holds the
\* output of a reply event that carries its own id, and so does the outcome
\* its caller received.
C14_OwnReply ==
  \A c \in Callers :
    /\ fut[c].state \in Fulfilled =>
          \E k \in 1..Len(srv_log) : srv_log[k].id = c /\ fut[c].value = srv_log[k].output
    /\ (op[c] = "action" /\ pc[c] = "done" /\ ret[c].tag \in Fulfilled) =>
          \E k \in 1..Len(srv_log) : srv_log[k].id = c /\ ret[c].value = srv_log[k].output

\* C14 witness: two calls were outstanding together and the server answered
\* the later one first; each caller has the output of its own reply.
C14_Witness ==
  \E c, d \in Callers : \E k, j \in 1..Len(srv_log) :
    /\ c < d /\ j < k
    /\ srv_log[k].id = c /\ srv_log[j].id = d
    /\ pc[c] = "done" /\ ret[c].value = srv_log[k].output
    /\ pc[d] = "done" /\ ret[d].value = srv_log[j].output

\* C15: an action call (goto, extract, evaluate_js) has its future registered
\* under its event id while the event is with the transport, the server sees
\* no event whose future was not created first, two calls never share an
\* entry of the table (the id is generate()'s, taken to be fresh: call c has
\* id c), and a call that returns a result returns the output of a code-200
\* reply with its id.  The value is what _send_event returns; goto and the
\* others pass it to their response model.
C15_ActionCall ==
  \A c \in Callers :
    /\ pc[c] = "send" => (fut[c] = Pending /\ c \in event_futures) \/ fut[c].state = "cancelled"
    /\ (c \in srv_inbox \/ HasReply(c, srv_log)) => fut[c].state # "none"
    /\ c \in event_futures => op[c] = "action" /\ fut[c] = Pending
    /\ (op[c] = "action" /\ pc[c] = "done" /\ ret[c].tag = "result") =>
          \E k \in 1..Len(srv_log) :
            srv_log[k] = BrowserEvent(c, 200, ret[c].value)

\* C15 witness: one action call has returned the output of its code-200
\* reply while another call, with its own entry in the table, is pending.
C15_Witness ==
  \E c, d \in Callers :
    /\ c # d
    /\ op[c] = "action" /\ pc[c] = "done" /\ ret[c].tag = "result"
    /\ \E k \in 1..Len(srv_log) : srv_log[k] = BrowserEvent(c, 200, ret[c].value)
    /\ pc[d] = "await" /\ d \in event_futures /\ fut[d] = Pending

\* A result() caller is in its wait loop, the cached snapshot is terminal and
\* the poller has stopped.
WaitsOnTerminal(c) ==
  /\ op[c] = "result" /\ pc[c] = "wait" /\ Terminated(task_response)
  /\ polling_task # 0 /\ poller[polling_task] = "done"

C17_EssentialFailureStopsPoller ==
  \A t \in ToolIds :
    (tool[t].state = "failed" /\ tool[t].kind.essential /\ tool[t].outcome = "Exception")
      ~> (polling_task # 0 /\ poller[polling_task] = "done")

ScopeEnded == op[1] = "close" /\ pc[1] = "done"

\* C20 as claimed: once the scope has ended, however it was left, the
\* reference taken on entry has been released (no other caller holds one, so
\* the count is 0) and the server has been asked to close the session.
C20_ScopeReleases ==
  ScopeEnded => is_alive = 0 /\ srv.asked # {}

\* A close call of caller c returns in this step (its transport call did not
\* raise).
CloseReturns(c) == pc[c] = "close_wait" /\ pc'[c] = "done" /\ ret'[c].tag = "closed"

\* C21 as claimed: close(force=True) calls delete_task once with the task id,
\* sends no event, and returns True.
C21_ForcedCloseReturnsTrue ==
  [][\A c \in Callers :
       (CloseReturns(c) /\ arg[c].force) =>
         /\ srv'.asked = srv.asked \cup {DeleteTask}
         /\ srv_inbox' = srv_inbox
         /\ ret'[c].value = <<TRUE>>]_vars

\* C22 as claimed: a forced close of a handle whose cached snapshot is running
\* or waiting leaves the cached snapshot with the terminal status cancelled
\* (so that a later result() returns it without connecting).
C22_ForcedCloseMarksCancelled ==
  [][\A c \in Callers :
       (CloseReturns(c) /\ arg[c].force /\ task_response.status \in NonTerminal) =>
         task_response'.status = "cancelled"]_vars

\* C23 as claimed: close(force=False) sends one event named session_action
\* with payload name close and nothing else (no delete_task), and returns True
\* (after the reply to that event).
C23_GracefulCloseEvent ==
  [][\A c \in Callers :
       (CloseReturns(c) /\ ~arg[c].force) =>
         /\ srv'.asked = srv.asked \cup
               {[call |-> "send_task_event", name |-> "session_action", payload |-> "close"]}
         /\ ret'[c].value = <<TRUE>>]_vars

\* C24 as claimed: a close(force=False) that ends while the poller has
\* already stopped on the ended session completes without raising.
C24_CloseAfterPollerStopped ==
  [][\A c \in Callers :
       ( /\ pc[c] = "close_wait" /\ ~arg[c].force /\ pc'[c] = "done"
         /\ polling_task # 0 /\ poller[polling_task] = "done"
         /\ Terminated(task_response) ) =>
         ret'[c].tag = "closed"]_vars

\* C25 as claimed: result() called on a session handle on which no close has
\* returned fails at once with BadRequestError.
C25_ResultOnOpenSession ==
  [][\A c \in Callers :
       ( /\ pc[c] = "idle" /\ pc'[c] # "idle" /\ op'[c] = "result"
         /\ \A d \in Callers : ~(op[d] = "close" /\ pc[d] = "done" /\ ret[d].tag = "closed") ) =>
         (pc'[c] = "done" /\ ret'[c].tag = "BadRequestError")]_vars

\* C26 as claimed: live_url() called while the cached snapshot is terminal and
\* has no live URL fails at once with BadRequestError.
C26_LiveUrlOnFinishedTask ==
  [][\A c \in Callers :
       ( /\ pc[c] = "idle" /\ pc'[c] # "idle" /\ op'[c] = "live_url"
         /\ Terminated(task_response) /\ task_response.live_url = None ) =>
         (pc'[c] = "done" /\ ret'[c].tag = "BadRequestError")]_vars

\* C27 as claimed, for the cached case: recording_url() called while the
\* cached snapshot has the empty string as recording_url fails with the
\* not-found ApiError.
C27_EmptyRecordingIsNotFound ==
  [][\A c \in Callers :
       ( /\ pc[c] = "idle" /\ pc'[c] # "idle" /\ op'[c] = "recording_url"
         /\ task_response.status # None /\ task_response.recording_url = "" ) =>
         (pc'[c] = "done" /\ ret'[c].tag = "ApiError404")]_vars

\* C28 as claimed: no downloads_url() call ends with a value or with the
\* not-found ApiError while the cached snapshot is running or waiting.
C28_NoDownloadsWhileRunning ==
  [][\A c \in Callers :
       ( /\ op'[c] = "downloads_url" /\ pc[c] # "done" /\ pc'[c] = "done"
         /\ task_response.status \in NonTerminal ) =>
         ret'[c].tag \notin {"returned", "ApiError404"}]_vars

\* C29 as claimed: whatever the timestamps of the events a response carries,
\* the watermark sent as event_t never decreases.
C29_WatermarkNeverDecreases ==
  [][last_event_t' >= last_event_t]_vars

\* C30: an action call whose event did not reach the server because the
\* transport failed ends at that step with the transport's error; it takes no
\* connection and does not wait for a reply.
C30_SendErrorPropagates ==
  [][\A c \in Callers :
       (pc[c] = "send" /\ pc'[c] # "send" /\ c \notin srv_inbox') =>
         /\ pc'[c] = "done"
         /\ ret'[c].tag = "ApiError"
         /\ is_alive' = is_alive /\ poller' = poller]_vars

\* C30 witness: an action call has ended with the transport's error, its
\* event never sent and its future never resolved.
C30_Witness ==
  \E c \in Callers :
    /\ op[c] = "action" /\ pc[c] = "done" /\ ret[c].tag = "ApiError"
    /\ fut[c] = Pending
    /\ \A k \in 1..Len(srv_log) : srv_log[k].id # c

\* =================================================== encode_url (_utils.py)
\* A query string is a sequence of tokens: "&" and "=" are the separators
\* urllib looks for, every other token is a piece of text.
MaxQuery == 5
Texts == {"z", "1", "interactive", "embed"}
Tokens == Texts \cup {"&", "="}
RECURSIVE SeqsUpTo(_, _)
SeqsUpTo(S, n) ==
  IF n = 0 THEN {<<>>}
  ELSE LET shorter == SeqsUpTo(S, n - 1)
       IN  shorter \cup {Append(q, x) : q \in {r \in shorter : Len(r) = n - 1}, x \in S}
Queries == SeqsUpTo(Tokens, MaxQuery)

\* Position of the first token x in q, 0 if there is none.
Find(q, x) ==
  IF \E i \in 1..Len(q) : q[i] = x
  THEN CHOOSE i \in 1..Len(q) : q[i] = x /\ \A j \in 1..(i - 1) : q[j] # x
  ELSE 0

\* `qs.split('&')`
RECURSIVE Split(_)
Split(q) ==
  LET i == Find(q, "&")
  IN  IF i = 0 THEN <<q>>
      ELSE <<SubSeq(q, 1, i - 1)>> \o Split(SubSeq(q, i + 1, Len(q)))

\* `urllib.parse.unquote` and `quote_plus` on the one character the model keeps
\* that needs an escape: "=" inside a name or a value.
Unquote(t) == [i \in 1..Len(t) |-> IF t[i] = "%3D" THEN "=" ELSE t[i]]
QuotePlus(t) == [i \in 1..Len(t) |-> IF t[i] = "=" THEN "%3D" ELSE t[i]]

\* `urllib.parse.parse_qsl(qs, keep_blank_values)`: the (name, value) pairs of
\* the fields of a query; an empty field is skipped, and so is a field with a
\* blank value or without "=" unless keep_blank_values is set.
RECURSIVE FieldPairs(_, _)
FieldPairs(fields, keep_blank_values) ==
  IF fields = <<>> THEN <<>>
  ELSE LET name_value == Head(fields)
           i == Find(name_value, "=")
           name == IF i = 0 THEN name_value ELSE SubSeq(name_value, 1, i - 1)
           value == IF i = 0 THEN <<>> ELSE SubSeq(name_value, i + 1, Len(name_value))
           rest == FieldPairs(Tail(fields), keep_blank_values)
       IN  IF name_value = <<>> THEN rest
           ELSE IF i = 0 /\ ~keep_blank_values THEN rest
           ELSE IF value # <<>> \/ keep_blank_values
                THEN <<[name |-> Unquote(name), value |-> Unquote(value)]>> \o rest
                ELSE rest
parse_qsl(qs, keep_blank_values) ==
  IF qs = <<>> THEN <<>> ELSE FieldPairs(Split(qs), keep_blank_values)

\* A dict of lists is a sequence of [name, values] in insertion order.
HasKey(d, n) == \E i \in 1..Len(d) : d[i].name = n
\* `d[n] = values`: an existing key keeps its place, a new one goes last.
SetKey(d, n, values) ==
  IF HasKey(d, n)
  THEN [i \in 1..Len(d) |-> IF d[i].name = n THEN [name |-> n, values |-> values] ELSE d[i]]
  ELSE Append(d, [name |-> n, values |-> values])
\* `d[n]`, the empty list for a missing key.
Values(d, n) == IF HasKey(d, n) THEN (CHOOSE e \in {d[i] : i \in 1..Len(d)} : e.name = n).values ELSE <<>>

\* `urllib.parse.parse_qs(qs)`: keep_blank_values is left at its default, False.
RECURSIVE Collect(_, _)
Collect(pairs, d) ==
  IF pairs = <<>> THEN d
  ELSE LET p == Head(pairs)
       IN  Collect(Tail(pairs), SetKey(d, p.name, Append(Values(d, p.name), p.value)))
parse_qs(qs) == Collect(parse_qsl(qs, FALSE), <<>>)

\* `urllib.parse.urlencode(params, doseq=True)`
RECURSIVE EncodeValues(_, _)
EncodeValues(n, values) ==
  IF values = <<>> THEN <<>>
  ELSE <<QuotePlus(n) \o <<"=">> \o QuotePlus(Head(values))>> \o EncodeValues(n, Tail(values))
RECURSIVE EncodeDict(_)
EncodeDict(d) ==
  IF d = <<>> THEN <<>> ELSE EncodeValues(Head(d).name, Head(d).values) \o EncodeDict(Tail(d))
RECURSIVE Join(_)
Join(fields) ==
  IF fields = <<>> THEN <<>>
  ELSE IF Len(fields) = 1 THEN Head(fields)
  ELSE Head(fields) \o <<"&">> \o Join(Tail(fields))
urlencode(d) == Join(EncodeDict(d))

Flag(b) == IF b THEN <<"true">> ELSE <<"false">>

\* encode_url, on the query of the URL: the other components pass through
\* urlparse / _replace / urlunparse.
encode_url(query, interactive, embed) ==
  LET params == parse_qs(query)
      updated == SetKey(SetKey(params, <<"interactive">>, <<Flag(interactive)>>),
                        <<"embed">>, <<Flag(embed)>>)
  IN  urlencode(updated)

\* encode_url that parses with keep_blank_values=True.
parse_qs_keep_blank(qs) == Collect(parse_qsl(qs, TRUE), <<>>)

InitUrl ==
  /\ FreshHandle
  /\ srv = Server("running", <<>>, [status |-> "done", output |-> "x"])
  /\ url \in [query : Queries, interactive : BOOLEAN, embed : BOOLEAN]
  /\ encoded = <<>>
  /\ queue = <<>> /\ api_key = "" /\ batches = <<>> /\ made = 0 /\ flushes = 0

CallEncodeUrl ==
  /\ encoded = <<>>
  /\ encoded' = <<encode_url(url.query, url.interactive, url.embed)>>
  /\ UNCHANGED <<handleVars, pc, op, arg, ret, srvVars, toolVars, url, telemetryVars>>

NextUrl == CallEncodeUrl
SpecUrl == InitUrl /\ [][NextUrl]_vars

\* The parameters a query carries: every field with a name, a field without
\* a value carrying the empty value.
Parameters(q) == SelectSeq(parse_qsl(q, TRUE), LAMBDA p : p.name # <<>>)
Named(ps, n) == SelectSeq(ps, LAMBDA p : p.name = n)
Others(ps) == SelectSeq(ps, LAMBDA p : p.name \notin {<<"interactive">>, <<"embed">>})
OtherNames(ps) == {ps[i].name : i \in 1..Len(ps)} \ {<<"interactive">>, <<"embed">>}

\* The two injected parameters appear exactly once each, with the value the
\* arguments ask for.
FlagsSet ==
  encoded # <<>> =>
    LET ps == Parameters(encoded[1])
    IN  /\ Named(ps, <<"interactive">>) = <<[name |-> <<"interactive">>, value |-> Flag(url.interactive)]>>
        /\ Named(ps, <<"embed">>) = <<[name |-> <<"embed">>, value |-> Flag(url.embed)]>>

\* Every other parameter of the URL is in the result with its values, and
\* the result has no parameter the URL did not have.
OthersKept ==
  encoded # <<>> =>
    LET before == Parameters(url.query)
        after == Parameters(encoded[1])
    IN  /\ OtherNames(after) = OtherNames(before)
        /\ \A n \in OtherNames(before) : Named(after, n) = Named(before, n)

\* C31: encode_url returns the URL with interactive and embed set per the
\* arguments, each exactly once, and keeps every other query parameter with
\* its value.
C31_EncodeUrlKeepsParameters == FlagsSet /\ OthersKept

\* ================================================ Telemetry (_telemetry.py)
\* Events made in the specification about telemetry, and _flush calls made.
MaxEvents == 12
MaxFlushes == 3
FLUSH_THRESHOLD == 10
MAX_QUEUE_SIZE == 200
ApiKeys == {"", "key"}

InitTelemetry ==
  /\ FreshHandle
  /\ srv = Server("running", <<>>, [status |-> "done", output |-> "x"])
  /\ url = NoUrl /\ encoded = <<>>
  /\ queue = <<>> /\ batches = <<>> /\ made = 0 /\ flushes = 0
  /\ api_key = ""

\* `self._api_key = api_key`
TelemetryInit(k) ==
  /\ api_key' = k
  /\ api_key # k
  /\ UNCHANGED <<handleVars, pc, op, arg, ret, srvVars, toolVars, urlVars, queue, batches, made, flushes>>

\* `deque(maxlen=...).append`: a full queue drops its oldest event.
AppendMaxlen(q, e) ==
  IF Len(q) = MAX_QUEUE_SIZE THEN Append(Tail(q), e) ELSE Append(q, e)

\* Telemetry.record: events are numbered in the order they are made.
Record ==
  /\ made < MaxEvents
  /\ made' = made + 1
  /\ queue' = AppendMaxlen(queue, made + 1)
  /\ UNCHANGED <<handleVars, pc, op, arg, ret, srvVars, toolVars, urlVars, api_key, batches, flushes>>

\* A drain that empties the queue whatever its length.
RECURSIVE DrainAll(_, _)
DrainAll(q, batch) ==
  IF q # <<>> THEN DrainAll(Tail(q), Append(batch, Head(q)))
  ELSE [queue |-> q, batch |-> batch]

\* `while self._queue and len(batch) < _FLUSH_THRESHOLD: batch.append(self._queue.popleft())`
RECURSIVE Drain(_, _)
Drain(q, batch) ==
  IF q # <<>> /\ Len(batch) < FLUSH_THRESHOLD
  THEN Drain(Tail(q), Append(batch, Head(q)))
  ELSE [queue |-> q, batch |-> batch]

\* Telemetry._flush: the drain has no suspension point, and the batch goes
\* to the backend's send_batch in one call.
Flush ==
  /\ flushes < MaxFlushes
  /\ flushes' = flushes + 1
  /\ IF queue = <<>> \/ api_key = ""
     THEN UNCHANGED <<queue, batches>>
     ELSE LET d == Drain(queue, <<>>)
          IN  /\ queue' = d.queue
              /\ batches' = IF d.batch # <<>> THEN Append(batches, d.batch) ELSE batches
  /\ UNCHANGED <<handleVars, pc, op, arg, ret, srvVars, toolVars, urlVars, api_key, made>>

NextTelemetry ==
  \/ \E k \in ApiKeys : TelemetryInit(k)
  \/ Record
  \/ Flush
SpecTelemetry == InitTelemetry /\ [][NextTelemetry]_vars

Min(a, b) == IF a < b THEN a ELSE b

\* C32: a _flush call with n queued events and an API key removes the first
\* min(n, 10) events, in queue order, and sends them as one batch, the rest
\* stays queued; with an empty queue or no API key it sends nothing and the
\* queue is as it was.
C32_FlushSendsFirstTen ==
  [][flushes' # flushes =>
       LET n == Len(queue)
           k == Min(n, 10)
       IN  IF n > 0 /\ api_key # ""
           THEN /\ batches' = Append(batches, SubSeq(queue, 1, k))
                /\ queue' = SubSeq(queue, k + 1, n)
           ELSE /\ batches' = batches
                /\ queue' = queue]_vars

\* Of three flushes one has sent the first ten events, one has sent fewer
\* than ten and one has sent nothing.
C32_Witness ==
  /\ \E i \in 1..Len(batches) : Len(batches[i]) = 10 /\ batches[i] = <<1, 2, 3, 4, 5, 6, 7, 8, 9, 10>>
  /\ \E i \in 1..Len(batches) : Len(batches[i]) < 10
  /\ flushes = 3 /\ Len(batches) = 2

\* ===================================================== tool calls, once each
\* The one registered tool of the specification about invocations.
OneKind == [essential |-> FALSE, error_message |-> <<>>, sync |-> FALSE]

\* result() calls that time out and are made again stop and restart the
\* poller while the agent emits tool calls, for the registered tool and for a
\* name that is not registered.
NextInvoke ==
  \/ \E c \in 1..MaxCalls : CallResult(c) \/ ConnSteps(c) \/ WaitTimeout(c) \/ PollSteps(c)
  \/ \E t \in ToolIds : ToolStart(t) \/ ToolReturn(t, "return") \/ ToolReplied(t) \/ ToolCancelled(t)
  \/ \E t \in ToolIds : ServerToolCall(t, <<OneKind>>) \/ ServerToolCall(t, <<>>)
SpecInvoke == InitRunning /\ [][NextInvoke]_vars

\* The position of the tool_call event t in the log, 0 if it is not there.
LogPosition(t) ==
  IF \E j \in 1..Len(srv_log) : srv_log[j].id = t
  THEN CHOOSE j \in 1..Len(srv_log) : srv_log[j].id = t
  ELSE 0
\* The poller has gone through the event: the watermark has reached it.
Polled(t) == LogPosition(t) > 0 /\ LogPosition(t) <= last_event_t
Registered(t) == LogPosition(t) > 0 /\ srv_log[LogPosition(t)].tool # <<>>
\* The task of the invocation is neither done nor cancelled by a cleanup.
InFlight(t) == tool[t].state \in {"created", "running", "blocked", "replying"}

\* C33: a polled tool_call event that names a registered tool has caused
\* exactly one invocation, however many poll cycles and pollers the handle has
\* had; the invocation is in the table of tool tasks for as long as it is in
\* flight; an event that names no registered tool, or that was not polled,
\* has caused none.
C33_OneInvocationPerToolCall ==
  \A t \in ToolIds :
    /\ tool[t].calls = IF Polled(t) /\ Registered(t) THEN 1 ELSE 0
    /\ InFlight(t) => t \in tool_tasks

\* A poller has ended and another one runs; a call of the registered tool was
\* polled and its invocation was cancelled by a poller's cleanup, and a later
\* call, of an unregistered name, was polled too.
C33_Witness ==
  /\ \E p, q \in Callers : p # q /\ poller[p] = "done" /\ poller[q] = "sleeping"
  /\ \E t, u \in ToolIds :
       /\ Polled(t) /\ Registered(t) /\ tool[t].state = "cancelled"
       /\ Polled(u) /\ ~Registered(u) /\ LogPosition(u) > LogPosition(t)

\* ================================================= replies with other codes
\* Payload codes the poller has no branch for; 0 stands for a payload without
\* a code.
OtherCodes == {404, 0}

\* The server answers an event with a reply whose code is none of 200, 400
\* and 500.
ServerReplyOther(i) ==
  /\ srv.status \in NonTerminal
  /\ i \in srv_inbox
  /\ \E code \in OtherCodes :
       srv_log' = Append(srv_log, BrowserEvent(i, code, <<i, Len(srv_log) + 1>>))
  /\ srv_inbox' = srv_inbox \ {i}
  /\ UNCHANGED <<handleVars, pc, op, arg, ret, srv>>
  /\ UNCHANGED <<toolVars, utilVars>>

NextCodes ==
  \/ \E c \in 1..MaxCalls : CallAction(c)
  \/ \E c \in Callers :
        \/ SendOk(c) \/ AwaitDone(c)
        \/ ConnSteps(c) \/ PollSteps(c)
        \/ ServerReply(c) \/ ServerReplyOther(c)
SpecCodes == InitRunning /\ [][NextCodes]_vars

\* C34: a future that is still pending is in the table of pending
\* correlations: an entry leaves the table only when its future has been
\* given a value, an error or a cancellation, whatever the code of the reply.
C34_PendingStaysInTable ==
  \A c \in Callers : fut[c] = Pending => c \in event_futures

\* ============================================ replies in the last snapshot
\* Action calls whose replies arrive while the task ends on the server.
NextLast ==
  \/ \E c \in 1..MaxCalls : CallAction(c)
  \/ \E c \in Callers :
        \/ SendOk(c) \/ AwaitDone(c)
        \/ ConnSteps(c) \/ PollSteps(c)
        \/ ServerReply(c)
  \/ ServerFinish
SpecLast == InitRunning /\ [][NextLast]_vars

\* The first reply to call c among the events evs, <<>> if there is none.
ReplyIn(evs, c) ==
  LET hits == {i \in 1..Len(evs) : evs[i].name = "browser_action" /\ evs[i].id = c}
  IN  IF hits = {} THEN <<>>
      ELSE <<evs[CHOOSE i \in hits : \A j \in hits : i <= j]>>

\* C35: when a fetch of the poller returns a terminal status and the poller
\* ends, a pending correlation whose reply is among the events of that
\* response gets the reply's value or error; only the correlations without a
\* reply in the response are cancelled.
C35_LastSnapshotRepliesCount ==
  [][\A p \in Callers : \A c \in Callers :
       (/\ poller[p] = "fetching" /\ poller'[p] = "done"
        /\ HardStop(Snapshot)
        /\ fut[c] = Pending /\ c \in event_futures)
       => LET reply == ReplyIn(ResponseEvents(last_event_t), c)
          IN  fut'[c] = IF reply # <<>> THEN Fulfil(reply[1]) ELSE Fut("cancelled", <<>>)]_vars

\* ================================================== connects that fail
\* The task of a caller is cancelled while it is inside _connect, at the
\* initial _get_task or at the stagger sleep: CancelledError leaves _connect,
\* which _connection awaits before its try, so no _disconnect runs.
ConnCancelled(c) ==
  /\ pc[c] \in {"conn_fetch", "conn_stagger"}
  /\ pc' = [pc EXCEPT ![c] = "done"]
  /\ ret' = [ret EXCEPT ![c] = Raised("CancelledError")]
  /\ UNCHANGED <<handleVars, op, arg>>
  /\ UNCHANGED srvVars
  /\ UNCHANGED <<toolVars, utilVars>>

NextConnFail ==
  \/ \E c \in Callers :
        \/ CallResult(c)
        \/ ConnSteps(c) \/ ConnFetchFail(c) \/ ConnCancelled(c)
        \/ WaitSteps(c) \/ PollSteps(c)
  \/ ServerFinish
SpecConnFail == Init /\ [][NextConnFail]_vars

\* A step in which caller c leaves _connect with an error before the poller
\* is launched.
ConnectFails(c) ==
  /\ pc[c] \in {"conn_fetch", "conn_stagger"}
  /\ pc'[c] = "done"
  /\ ret'[c].tag \in {"ApiError", "CancelledError"}

\* C36: a connect that fails at its initial fetch, or whose caller is
\* cancelled before the poller is launched, gives back the reference it took.
C36_FailedConnectReleases ==
  [][\A c \in Callers : ConnectFails(c) => is_alive' = is_alive - 1]_vars

\* ============================================== close that fails, and sends
\* A step in which the close of caller c ends, by returning or by raising.
CloseEnds(c) == op[c] = "close" /\ pc[c] = "close_wait" /\ pc'[c] = "done"

\* C37: a session close gives back the reference of the session whether its
\* transport call succeeds or raises: the count is one lower after the close
\* has ended.
C37_CloseAlwaysReleases ==
  [][\A c \in Callers : (CloseEnds(c) /\ is_alive > 0) => is_alive' = is_alive - 1]_vars

\* A step in which the action call of caller c ends with the transport's
\* error for its event.
SendRaises(c) == op[c] = "action" /\ pc[c] = "send" /\ pc'[c] = "done" /\ ret'[c].tag = "ApiError"

\* C38: once an action call has raised because the transport failed to send
\* its event, the table of pending correlations has no entry for that event.
C38_FailedSendLeavesNoEntry ==
  [][\A c \in Callers : SendRaises(c) => c \notin event_futures']_vars

\* ================================== an action call beside another consumer
\* result() and an action call run side by side on one handle.
NextBeside ==
  \/ CallResult(1)
  \/ \E c \in 2..MaxCalls : CallAction(c)
  \/ \E c \in Callers :
        \/ ConnSteps(c) \/ WaitSteps(c) \/ PollSteps(c)
        \/ SendOk(c) \/ AwaitDone(c)
        \/ ServerReply(c)
  \/ ServerFinish
SpecBeside == Init /\ [][NextBeside]_vars

\* C39: an action call that has registered its future and is still sending
\* its event keeps the future pending: the disconnect of another consumer,
\* and the cleanup of the poller it stops, do not cancel it.
C39_SendingCallNotCancelled ==
  \A c \in Callers : pc[c] = "send" => fut[c] = Pending

\* ====================================================== replies of a tool
\* Tools, essential or not, whose function returns a value, returns an
\* exception object or raises, with a transport that may fail to send a reply.
SendKinds == {k \in ToolKinds : ~k.sync /\ k.error_message = <<>>}
NextToolSend ==
  \/ CallEnter(1)
  \/ ConnSteps(1)
  \/ \E p \in Callers : PollLoop(p)
  \/ \E t \in ToolIds :
        \/ ToolStart(t)
        \/ \E o \in Outcomes \cup ReturnedErrors : ToolReturn(t, o)
        \/ ToolReplied(t) \/ ToolReplyFails(t)
        \/ ToolCancelled(t)
  \/ \E t \in ToolIds : \E k \in SendKinds : ServerToolCall(t, <<k>>)
  \/ ServerFinish
SpecToolSend == InitRunning /\ [][NextToolSend]_vars

\* The task of the invocation has ended without being cancelled.
Ended(t) == tool[t].state \in {"done", "failed"}

\* C40: the server receives exactly one reply for the event of a tool
\* invocation: never more than one, and one once the invocation has ended,
\* however the function ended and whether or not a send failed.
C40_OneReplyPerInvocation ==
  \A t \in ToolIds :
    /\ tool[t].sent <= 1
    /\ Ended(t) => tool[t].sent = 1
====
